---- MODULE Spec2Model ----
(***************************************************************************)
(* The event knowledge graph of news_agent: the repository                 *)
(* (src/src/ekg/repository.py) over the SQLAlchemy entities of             *)
(* src/src/ekg/models.py, and the graph operations built on it             *)
(* (src/src/ekg/graph_ops.py).                                             *)
(*                                                                         *)
(* The committed database is the tuple of tables sources, claims, events,  *)
(* histories.  Each caller owns one SQLAlchemy Session (one EKGRepository  *)
(* is built around one Session); a Session whose flush failed is inactive  *)
(* until somebody calls Session.rollback(), which the repository never     *)
(* does.  Foreign keys are enforced by the PostgreSQL engine of            *)
(* src/src/utils/config.py and not by the SQLite engine the demos build.   *)
(*                                                                         *)
(* Next to the store: the JSON importer of src/demos/ekg_import_json.py,   *)
(* which opens a database of its own, and the investigation pipeline of    *)
(* src/src/orchestrator/investigation.py over the agents of                *)
(* src/src/agents/base.py.                                                 *)
(***************************************************************************)
EXTENDS Integers, Sequences, FiniteSets, TLC

\* ------------------------------------------------------------------ bounds
MaxSources == 2
MaxClaims == 2
MaxCount == 2
MaxBatch == 2
NumSessions == 2
MaxDeltas == 3
MaxEventClaims == 3
MaxRefutations == 2

\* ------------------------------------------------------- program constants
DefaultCreditScore == 50
MinCreditScore == 0
MaxCreditScore == 100
DefaultCredibility == 50
\* config.py ekg_credit_score_decrement, the change the demo applies per refuted claim
CreditScoreDecrement == -5
\* ekg_demo.py scenario 2: for i in range(3)
Rounds == 3
\* graph_ops.py line 175: "high" if total >= 3
ConfidenceThreshold == 3

\* ------------------------------------------------------------ value domains
Sessions == 1..NumSessions
SourceIds == 1..MaxSources
Names == 1..MaxSources
\* The (source_type, **kwargs) a caller passes to find_or_create_source
SourceKw == {[type |-> "official_media", url |-> "u1"], [type |-> "blog", url |-> "u2"]}
ClaimStatus == {"pending", "verified", "refuted", "unverifiable"}
EventStatus == {"developing", "investigated", "verified", "refuted"}
EventIds == {"E1", "E2"}
NoEvent == "none"
InvestigationIds == {"I1", "I2"}
\* The credibility_score a snapshot is saved with
SnapshotScores == {40, 75}
Deltas == {-60, 60}
\* An event id no Event row has
NoSuchEvent == "E0"
\* Credit scores of the Sources behind an event's claims
ScoreSamples == {0, 20, 80, 100}
\* The confidence argument of create_claim_refutation in hundredths: -0.5, 0.9
\* (the demo's), 1.5
ConfidenceSamples == {-50, 90, 150}
\* A datetime as <<seconds, microsecond>>
Timestamps == {<<1, 0>>, <<1, 5>>, <<2, 0>>}
\* The timestamp of the claims of the callers that never read it back
T0 == <<1, 0>>
\* The max_depth argument of find_claim_propagation_path (3 by default)
Depths == {0, 1, 3}
\* The limit argument of get_trending_sources
Limits == 1..MaxSources
\* An Optional[float] argument: the empty sequence is None.
OptScores == {<<>>, <<0>>, <<75>>}
\* One entry of batch_update_source_scores: source_id 0 is a falsy id,
\* an empty change is score_change None.
BatchEntries == [source_id : {0} \cup SourceIds, score_change : {<<>>} \cup {<<d>> : d \in Deltas}]

VARIABLES
  sources,     \* table sources: sequence of rows, the id is the index
  claims,      \* table claims: sequence of rows, the id is the index
  events,      \* table events: function from the ids present to rows
  histories,   \* table investigation_history: function from investigation_id to rows
  refutations, \* table claim_refutations: sequence of rows, the id is the index
  fkEnforced,  \* whether the engine enforces FOREIGN KEY constraints
  inactive,    \* per Session: a flush failed and nobody rolled back
  sess,        \* per Session: the position inside a handler and what it has read
  last,        \* the last call that returned or raised, and how
  entered,     \* per source id: entry transitions into VERIFIED / REFUTED performed
  applied,     \* per source id: the score changes applied, in commit order
  inv          \* the orchestrator: the investigation start_investigation is running

store == <<sources, claims, events, histories, refutations>>
ghost == <<entered, applied>>
vars == <<sources, claims, events, histories, refutations, fkEnforced, inactive, sess, last, entered, applied, inv>>

\* ------------------------------------------------------------------ helpers
Min(a, b) == IF a < b THEN a ELSE b
Max(a, b) == IF a > b THEN a ELSE b

\* line 95 without the lower bound
ClampNoFloor(v) == Min(MaxCreditScore, v)
\* repository.py line 95: max(0, min(100, source.credit_score + change))
Clamp(v) == Max(MinCreditScore, Min(MaxCreditScore, v))

SourceExists(id) == id \in DOMAIN sources
ClaimExists(id) == id \in DOMAIN claims
EventExists(id) == id \in DOMAIN events

\* Source(name=..., type=..., **kwargs) with the score column left without its
\* default and the claim that led to the Source counted at once
NewSourceCounted(name, type, url) ==
  [name |-> name, type |-> type, url |-> url,
   credit_score |-> 0,
   total_claims |-> 1, verified_claims |-> 0, refuted_claims |-> 0]

\* Source(name=..., type=..., **kwargs) with the column defaults of models.py
NewSource(name, type, url) ==
  [name |-> name, type |-> type, url |-> url,
   credit_score |-> DefaultCreditScore,
   total_claims |-> 0, verified_claims |-> 0, refuted_claims |-> 0]

\* query(Source).filter_by(name=name).first(): 0 stands for None
SourceIdByName(name) ==
  IF \E i \in DOMAIN sources : sources[i].name = name
  THEN CHOOSE i \in DOMAIN sources : sources[i].name = name /\ \A j \in DOMAIN sources : sources[j].name = name => i <= j
  ELSE 0

IdleSess == [pc |-> "idle", id |-> 0, arg |-> 0, st |-> "-", old |-> "-", ev |-> "-", cnt |-> 0, cnt2 |-> 0]
Idle(s) == sess[s].pc = "idle"
AllIdle == \A s \in Sessions : Idle(s)

Result(op, res) == [op |-> op, res |-> res, note |-> "-", ret |-> 0]

\* Any statement on a Session whose flush failed raises PendingRollbackError
\* and touches nothing.
RaisesPending(s, op) ==
  /\ last' = Result(op, "raised")
  /\ UNCHANGED <<store, inactive>>

\* commit() raised IntegrityError: the database rolled the transaction back,
\* the Session is left inactive.
RaisesIntegrity(s, op) ==
  /\ last' = Result(op, "raised")
  /\ inactive' = [inactive EXCEPT ![s] = TRUE]
  /\ UNCHANGED store

\* ------------------------------- src/agents/base.py, src/orchestrator/investigation.py
\* _initialize_agents: the agents in the order they run
AgentOrder ==
  <<"MonitorAgent", "SourceHunterAgent", "VerifierAgent", "NarrativeAnalystAgent", "SynthesizerAgent">>

\* AgentResult: errors is the number of entries of the list (0 also for None);
\* executed tells whether execute() was called, raised whether run() let an
\* exception out instead of returning
AgentResult(agent_name, status, errors, skipped, executed) ==
  [agent_name |-> agent_name, status |-> status, errors |-> errors,
   skipped |-> skipped, executed |-> executed, raised |-> FALSE]

\* AgentResult.is_success
IsSuccess(result) == result.status = "completed" /\ result.errors = 0

\* BaseAgent.run with the try block around execute() alone: an exception of a
\* hook leaves run()
RunHooksUnguarded(agent_name, enabled, valid, outcome) ==
  IF ~enabled
  THEN AgentResult(agent_name, "completed", 0, TRUE, FALSE)
  ELSE IF ~valid
  THEN AgentResult(agent_name, "failed", 1, FALSE, FALSE)
  ELSE IF outcome = "pre_raises"
  THEN [AgentResult(agent_name, "failed", 0, FALSE, FALSE) EXCEPT !.raised = TRUE]
  ELSE IF outcome = "post_raises"
  THEN [AgentResult(agent_name, "failed", 0, FALSE, TRUE) EXCEPT !.raised = TRUE]
  ELSE IF outcome \in {"execute_raises", "returns_none"}
  THEN AgentResult(agent_name, "failed", 1, FALSE, TRUE)
  ELSE AgentResult(agent_name,
                   IF outcome \in {"completed", "completed_with_errors"} THEN "completed" ELSE "failed",
                   IF outcome \in {"completed_with_errors", "failed"} THEN 1 ELSE 0,
                   FALSE, TRUE)

\* BaseAgent.run (lines 100-150).  outcome is what the hooks and execute() do
\* in this run: execute returns a result ("completed": COMPLETED without
\* errors, "completed_with_errors", "failed": FAILED with errors,
\* "failed_without_errors"), returns no AgentResult ("returns_none"), or one
\* of pre_execute, execute, post_execute raises an Exception
Run(agent_name, enabled, valid, outcome) ==
  IF ~enabled
  THEN AgentResult(agent_name, "completed", 0, TRUE, FALSE)
  ELSE IF ~valid
  THEN AgentResult(agent_name, "failed", 1, FALSE, FALSE)
  ELSE IF outcome = "pre_raises"
  THEN AgentResult(agent_name, "failed", 1, FALSE, FALSE)
  ELSE IF outcome \in {"execute_raises", "returns_none", "post_raises"}
  THEN AgentResult(agent_name, "failed", 1, FALSE, TRUE)
  ELSE AgentResult(agent_name,
                   IF outcome \in {"completed", "completed_with_errors"} THEN "completed" ELSE "failed",
                   IF outcome \in {"completed_with_errors", "failed"} THEN 1 ELSE 0,
                   FALSE, TRUE)

\* _is_critical_agent with every agent critical
IsCriticalAgentAlways(agent_name) == agent_name \in {AgentOrder[k] : k \in DOMAIN AgentOrder}

\* _is_critical_agent
IsCriticalAgent(agent_name) == agent_name \in {"SourceHunterAgent", "SynthesizerAgent"}

\* No investigation has been started
NoInvestigation ==
  [pc |-> "idle", enabled |-> <<>>, valid |-> FALSE, results |-> <<>>, inputs |-> <<>>,
   ekg_update |-> FALSE, status |-> "-"]

\* start_investigation lines 77-88: the context; validate_input will accept it
\* when the submission is not empty.  The orchestrator was built with config.
StartInvestigation(config, submission_given) ==
  /\ inv.pc \in {"idle", "returned"}
  /\ inv' = [NoInvestigation EXCEPT !.pc = "agents", !.enabled = config, !.valid = submission_given]
  /\ UNCHANGED <<store, fkEnforced, inactive, sess, last>>

\* start_investigation lines 93-99: one pass of the loop over self.agents
RunNextAgent(outcome) ==
  /\ inv.pc = "agents"
  /\ LET k == Len(inv.results) + 1
         result == Run(AgentOrder[k], inv.enabled[k], inv.valid, outcome)
     IN inv' = [inv EXCEPT
                  !.results = Append(@, result),
                  !.inputs = Append(@, IF inv.enabled[k] /\ inv.valid THEN outcome ELSE "-"),
                  !.pc = IF result.raised THEN "raised"
                         ELSE IF ~IsSuccess(result) /\ IsCriticalAgent(AgentOrder[k]) THEN "report"
                         ELSE IF k = Len(AgentOrder) THEN "report"
                         ELSE "agents"]
  /\ UNCHANGED <<store, fkEnforced, inactive, sess, last>>

\* start_investigation lines 101-130: the last result decides
ReturnInvestigation ==
  /\ inv.pc = "report"
  /\ LET final_result == inv.results[Len(inv.results)]
     IN inv' = [inv EXCEPT !.pc = "returned",
                           !.ekg_update = IsSuccess(final_result),
                           !.status = IF IsSuccess(final_result) THEN "completed" ELSE "failed"]
  /\ UNCHANGED <<store, fkEnforced, inactive, sess, last>>

\* ------------------------------------------------------------ initial state
NoRows == [k \in {} |-> k]
NoEntries == [i \in SourceIds |-> [verified |-> 0, refuted |-> 0]]
NoApplied == [i \in SourceIds |-> <<>>]

Init ==
  /\ sources = <<>>
  /\ claims = <<>>
  /\ events = NoRows
  /\ histories = NoRows
  /\ refutations = <<>>
  /\ fkEnforced \in BOOLEAN
  /\ inactive = [s \in Sessions |-> FALSE]
  /\ sess = [s \in Sessions |-> IdleSess]
  /\ last = Result("none", "ok")
  /\ entered = NoEntries
  /\ applied = NoApplied
  /\ inv = NoInvestigation

\* ------------------------------------------------- repository: one call each
\* ---- find_or_create_source(name, source_type, **kwargs)
\* What the call reports: the id of the Source returned, and whether it was
\* created, found as given, or found with another type or url.
Found(id, type, url) ==
  [op |-> "find_or_create_source", res |-> "ok", ret |-> id,
   note |-> IF sources[id].type = type /\ sources[id].url = url THEN "found" ELSE "found_other"]
Created(id) ==
  [op |-> "find_or_create_source", res |-> "ok", ret |-> id, note |-> "created"]

\* lines 54-65 with the row found overwritten by the arguments
FindOrCreateSourceLastWins(s, name, type, url) ==
  /\ Idle(s)
  /\ IF inactive[s]
     THEN RaisesPending(s, "find_or_create_source")
     ELSE
        /\ IF SourceIdByName(name) # 0
           THEN /\ sources' = [sources EXCEPT ![SourceIdByName(name)].type = type,
                                              ![SourceIdByName(name)].url = url]
                /\ last' = Found(SourceIdByName(name), type, url)
           ELSE /\ Len(sources) < MaxSources
                /\ sources' = Append(sources, NewSource(name, type, url))
                /\ last' = Created(Len(sources) + 1)
        /\ UNCHANGED <<claims, events, histories, refutations, inactive>>
  /\ UNCHANGED <<fkEnforced, sess>>

FindOrCreateSource(s, name, type, url) ==
  /\ Idle(s)
  /\ IF inactive[s]
     THEN RaisesPending(s, "find_or_create_source")
     ELSE
        /\ IF SourceIdByName(name) # 0
           THEN /\ UNCHANGED sources
                /\ last' = Found(SourceIdByName(name), type, url)
           ELSE /\ Len(sources) < MaxSources
                /\ sources' = Append(sources, NewSource(name, type, url))
                /\ last' = Created(Len(sources) + 1)
        /\ UNCHANGED <<claims, events, histories, refutations, inactive>>
  /\ UNCHANGED <<fkEnforced, sess>>

\* ---- update_source_credit_score(source_id, change)
\* lines 95-99 without the clamp of line 95
UcsWriteUnclamped(srcs, source_id, read_score, change) ==
  IF change = 0 THEN srcs
  ELSE [srcs EXCEPT ![source_id].credit_score = read_score + change]

\* lines 95-99 with an UPDATE that has lost its WHERE id = ... clause
UcsWriteEveryRow(srcs, source_id, read_score, change) ==
  [i \in DOMAIN srcs |-> [srcs[i] EXCEPT !.credit_score = Clamp(read_score + change)]]

\* lines 95-99: the UPDATE the flush emits from the score the Session read.
\* An attribute set to the value it was loaded with is not written.
UcsWrite(srcs, source_id, read_score, change) ==
  IF Clamp(read_score + change) = read_score
  THEN srcs
  ELSE [srcs EXCEPT ![source_id].credit_score = Clamp(read_score + change)]

UpdateSourceCreditScore(s, source_id, change) ==
  /\ Idle(s)
  /\ IF inactive[s]
     THEN RaisesPending(s, "update_source_credit_score")
     ELSE
        /\ IF ~SourceExists(source_id)
           THEN /\ last' = Result("update_source_credit_score", "false")
                /\ UNCHANGED sources
           ELSE /\ sources' = UcsWrite(sources, source_id, sources[source_id].credit_score, change)
                /\ last' = Result("update_source_credit_score", "ok")
        /\ UNCHANGED <<claims, events, histories, refutations, inactive>>
  /\ UNCHANGED <<fkEnforced, sess>>

\* ---- get_source_statistics(source_id)
RECURSIVE Gcd(_, _)
Gcd(a, b) == IF b = 0 THEN a ELSE Gcd(b, a % b)
\* The value of a true division n / d (d > 0, n >= 0), as a fraction in lowest terms
Quotient(n, d) == [num |-> n \div Gcd(n, d), den |-> d \div Gcd(n, d)]
Zero == Quotient(0, 1)

\* lines 120-123 without the total_claims > 0 test: refuted_claims stands in the
\* numerator and the rate of a Source without claims is left at 100
AccuracyRateOfRefuted(source) ==
  IF source.total_claims > 0
  THEN Quotient(source.refuted_claims * 100, source.total_claims)
  ELSE Quotient(100, 1)

\* lines 120-123: verified_claims / total_claims * 100 if total_claims > 0 else 0
AccuracyRate(source) ==
  IF source.total_claims > 0
  THEN Quotient(source.verified_claims * 100, source.total_claims)
  ELSE Zero

\* lines 116-125: the dict returned for a Source row
Statistics(source) ==
  [total_claims |-> source.total_claims,
   verified_claims |-> source.verified_claims,
   refuted_claims |-> source.refuted_claims,
   accuracy_rate |-> AccuracyRate(source),
   credit_score |-> source.credit_score]

\* lines 112-114: {} when no Source has the id
NoStatistics == [total_claims |-> -1, verified_claims |-> -1, refuted_claims |-> -1,
                 accuracy_rate |-> Zero, credit_score |-> -1]

GetSourceStatistics(s, source_id) ==
  /\ Idle(s)
  /\ IF inactive[s]
     THEN RaisesPending(s, "get_source_statistics")
     ELSE /\ last' = [op |-> "get_source_statistics",
                      res |-> IF SourceExists(source_id) THEN "ok" ELSE "empty",
                      note |-> "-", ret |-> source_id,
                      statistics |-> IF SourceExists(source_id)
                                     THEN Statistics(sources[source_id]) ELSE NoStatistics]
          /\ UNCHANGED <<store, inactive>>
  /\ UNCHANGED <<fkEnforced, sess>>

\* ---- query_source_reputation(source_name)
\* lines 412-418: the dict returned for the Source found by name
Reputation(id) ==
  [op |-> "query_source_reputation", res |-> "ok", note |-> "-", ret |-> id,
   name |-> sources[id].name, type |-> sources[id].type,
   credit_score |-> sources[id].credit_score,
   statistics |-> Statistics(sources[id])]

\* lines 408-410 with the Source created when get_source_by_name finds none
QuerySourceReputationCreates(s, source_name) ==
  /\ Idle(s)
  /\ IF inactive[s]
     THEN RaisesPending(s, "query_source_reputation")
     ELSE /\ IF SourceIdByName(source_name) = 0
             THEN /\ last' = [op |-> "query_source_reputation", res |-> "none", note |-> "-",
                              ret |-> 0, name |-> source_name]
                  /\ sources' = Append(sources, NewSource(source_name, "social_media", "u1"))
             ELSE /\ last' = Reputation(SourceIdByName(source_name))
                  /\ UNCHANGED sources
          /\ UNCHANGED <<claims, events, histories, refutations, inactive>>
  /\ UNCHANGED <<fkEnforced, sess>>

QuerySourceReputation(s, source_name) ==
  /\ Idle(s)
  /\ IF inactive[s]
     THEN RaisesPending(s, "query_source_reputation")
     ELSE /\ last' = IF SourceIdByName(source_name) = 0
                     THEN [op |-> "query_source_reputation", res |-> "none", note |-> "-",
                           ret |-> 0, name |-> source_name]
                     ELSE Reputation(SourceIdByName(source_name))
          /\ UNCHANGED <<store, inactive>>
  /\ UNCHANGED <<fkEnforced, sess>>

\* ---- create_event(event_id, **kwargs)
NewEvent(status) == [status |-> status, credibility_score |-> DefaultCredibility]

CreateEvent(s, event_id, status) ==
  /\ Idle(s)
  /\ IF inactive[s]
     THEN RaisesPending(s, "create_event")
     ELSE
        /\ IF EventExists(event_id)
           THEN RaisesIntegrity(s, "create_event")
           ELSE /\ events' = events @@ (event_id :> NewEvent(status))
                /\ last' = Result("create_event", "ok")
                /\ UNCHANGED <<sources, claims, histories, refutations, inactive>>
  /\ UNCHANGED <<fkEnforced, sess>>

\* ---- update_event_status(event_id, status, credibility_score=None)
\* lines 176-186 with the event created when get_event finds none
UpdateEventStatusUpsert(s, event_id, status, credibility_score) ==
  /\ Idle(s)
  /\ IF inactive[s]
     THEN RaisesPending(s, "update_event_status")
     ELSE
        /\ IF ~EventExists(event_id)
           THEN /\ last' = Result("update_event_status", "false")
                /\ events' = events @@ (event_id :> NewEvent(status))
           ELSE /\ events' = [events EXCEPT ![event_id] =
                                [status |-> status,
                                 credibility_score |-> IF credibility_score # <<>>
                                                       THEN credibility_score[1]
                                                       ELSE @.credibility_score]]
                /\ last' = Result("update_event_status", "ok")
        /\ UNCHANGED <<sources, claims, histories, refutations, inactive>>
  /\ UNCHANGED <<fkEnforced, sess>>

\* lines 180-181 with "if credibility_score:" as the test: a score of 0 is
\* taken for no score
UpdateEventStatusTruthy(s, event_id, status, credibility_score) ==
  /\ Idle(s)
  /\ IF inactive[s]
     THEN RaisesPending(s, "update_event_status")
     ELSE
        /\ IF ~EventExists(event_id)
           THEN /\ last' = Result("update_event_status", "false")
                /\ UNCHANGED events
           ELSE /\ events' = [events EXCEPT ![event_id] =
                                [status |-> status,
                                 credibility_score |-> IF credibility_score # <<>> /\ credibility_score[1] # 0
                                                       THEN credibility_score[1]
                                                       ELSE @.credibility_score]]
                /\ last' = Result("update_event_status", "ok")
        /\ UNCHANGED <<sources, claims, histories, refutations, inactive>>
  /\ UNCHANGED <<fkEnforced, sess>>

UpdateEventStatus(s, event_id, status, credibility_score) ==
  /\ Idle(s)
  /\ IF inactive[s]
     THEN RaisesPending(s, "update_event_status")
     ELSE
        /\ IF ~EventExists(event_id)
           THEN /\ last' = Result("update_event_status", "false")
                /\ UNCHANGED events
           ELSE /\ events' = [events EXCEPT ![event_id] =
                                [status |-> status,
                                 credibility_score |-> IF credibility_score # <<>>
                                                       THEN credibility_score[1]
                                                       ELSE @.credibility_score]]
                /\ last' = Result("update_event_status", "ok")
        /\ UNCHANGED <<sources, claims, histories, refutations, inactive>>
  /\ UNCHANGED <<fkEnforced, sess>>

\* ---- create_claim(text, source_id, event_id=None, **kwargs)
\* The row the INSERT writes; ctid is its place in the table, the next after
\* the rows already there
NewClaim(source_id, event_id, status, timestamp) ==
  [source_id |-> source_id, event_id |-> event_id, status |-> status,
   timestamp |-> timestamp, ctid |-> Len(claims) + 1]

\* The FOREIGN KEY checks of the INSERT into claims (models.py lines 137-138).
ClaimKeysOk(source_id, event_id) ==
  \/ ~fkEnforced
  \/ /\ SourceExists(source_id)
     /\ event_id = NoEvent \/ EventExists(event_id)

\* lines 220-222: the UPDATE of total_claims from the row the Session read
CcWrite(srcs, source_id, found, read_total) ==
  IF found THEN [srcs EXCEPT ![source_id].total_claims = read_total + 1] ELSE srcs

CreateClaim(s, source_id, event_id, status, timestamp) ==
  /\ Idle(s)
  /\ IF inactive[s]
     THEN RaisesPending(s, "create_claim")
     ELSE
        /\ IF ClaimKeysOk(source_id, event_id)
           THEN /\ claims' = Append(claims, NewClaim(source_id, event_id, status, timestamp))
                /\ sources' = CcWrite(sources, source_id, SourceExists(source_id),
                                      IF SourceExists(source_id) THEN sources[source_id].total_claims ELSE 0)
                /\ last' = Result("create_claim", "ok")
                /\ UNCHANGED <<events, histories, refutations, inactive>>
           ELSE RaisesIntegrity(s, "create_claim")
  /\ UNCHANGED <<fkEnforced, sess>>

\* ---- update_claim_status(claim_id, status, verification_result=None)
\* claim.source: the row sources.id = claim.source_id, 0 when there is none
OwnerOf(claim_id) ==
  IF SourceExists(claims[claim_id].source_id) THEN claims[claim_id].source_id ELSE 0

\* lines 255-260 with the guard of line 257 dropped: counts every call
UclWriteEveryCall(srcs, owner, old_status, status, read_verified, read_refuted) ==
  IF owner = 0 THEN srcs
  ELSE IF status = "verified"
  THEN [srcs EXCEPT ![owner].verified_claims = read_verified + 1]
  ELSE IF status = "refuted"
  THEN [srcs EXCEPT ![owner].refuted_claims = read_refuted + 1]
  ELSE srcs

\* lines 255-260 with the flywheel built in: a claim entering REFUTED also
\* lowers the owner's credit_score by the configured decrement
UclWriteWithFlywheel(srcs, owner, old_status, status, read_verified, read_refuted) ==
  IF owner = 0 THEN srcs
  ELSE IF old_status # "verified" /\ status = "verified"
  THEN [srcs EXCEPT ![owner].verified_claims = read_verified + 1]
  ELSE IF old_status # "refuted" /\ status = "refuted"
  THEN [srcs EXCEPT ![owner].refuted_claims = read_refuted + 1,
                    ![owner].credit_score = Clamp(@ + CreditScoreDecrement)]
  ELSE srcs

\* lines 255-260 with a counter taken back when the claim leaves its status
UclWriteTakesBack(srcs, owner, old_status, status, read_verified, read_refuted) ==
  IF owner = 0 \/ old_status = status THEN srcs
  ELSE [srcs EXCEPT
          ![owner].verified_claims = IF status = "verified" THEN read_verified + 1
                                     ELSE IF old_status = "verified" THEN read_verified - 1
                                     ELSE read_verified,
          ![owner].refuted_claims = IF status = "refuted" THEN read_refuted + 1
                                    ELSE IF old_status = "refuted" THEN read_refuted - 1
                                    ELSE read_refuted]

\* lines 255-260: the UPDATE of the owner's counters from the row the Session read
UclWrite(srcs, owner, old_status, status, read_verified, read_refuted) ==
  IF owner = 0 THEN srcs
  ELSE IF old_status # "verified" /\ status = "verified"
  THEN [srcs EXCEPT ![owner].verified_claims = read_verified + 1]
  ELSE IF old_status # "refuted" /\ status = "refuted"
  THEN [srcs EXCEPT ![owner].refuted_claims = read_refuted + 1]
  ELSE srcs

\* Where an UPDATE leaves the rows of a table: SQLite (the demos) rewrites the
\* row in its place in rowid order; PostgreSQL (config.py line 25, the engine
\* that enforces the foreign keys) writes a new row version after the last
\* row, and the rows behind the old version are one place nearer the front
Rewritten(cls, claim_id) ==
  IF fkEnforced
  THEN [c \in DOMAIN cls |->
          IF c = claim_id THEN [cls[c] EXCEPT !.ctid = Len(cls)]
          ELSE IF cls[c].ctid > cls[claim_id].ctid THEN [cls[c] EXCEPT !.ctid = @ - 1]
          ELSE cls[c]]
  ELSE cls

\* line 249: the UPDATE of the claim row; a status set to the value that was
\* loaded is not written
UclClaimWrite(cls, claim_id, old_status, status) ==
  IF status = old_status THEN cls
  ELSE Rewritten([cls EXCEPT ![claim_id].status = status], claim_id)

\* What update_claim_status reports: whether the target status was entered or repeated
StatusResult(old_status, status) ==
  [op |-> "update_claim_status", res |-> "ok", ret |-> 0,
   note |-> IF status \notin {"verified", "refuted"} THEN "-"
            ELSE IF old_status = status THEN "repeat" ELSE "entry"]

\* The model's caps on the rows and on the counters, applied where a step is taken
ClaimsBounded == Len(claims) < MaxClaims
CountersBounded(srcs) ==
  \A i \in DOMAIN srcs : srcs[i].verified_claims <= MaxCount /\ srcs[i].refuted_claims <= MaxCount

UpdateClaimStatus(s, claim_id, status) ==
  /\ Idle(s)
  /\ IF inactive[s]
     THEN RaisesPending(s, "update_claim_status")
     ELSE
        /\ IF ~ClaimExists(claim_id)
           THEN /\ last' = Result("update_claim_status", "false")
                /\ UNCHANGED <<sources, claims>>
           ELSE LET old_status == claims[claim_id].status
                    owner == OwnerOf(claim_id)
                IN /\ claims' = UclClaimWrite(claims, claim_id, old_status, status)
                   /\ sources' = UclWrite(sources, owner, old_status, status,
                                          IF owner = 0 THEN 0 ELSE sources[owner].verified_claims,
                                          IF owner = 0 THEN 0 ELSE sources[owner].refuted_claims)
                   /\ last' = StatusResult(old_status, status)
        /\ UNCHANGED <<events, histories, refutations, inactive>>
  /\ UNCHANGED <<fkEnforced, sess>>

\* ---- create_claim_refutation(refuting_claim_id, refuted_claim_id, confidence, evidence)
\* The FOREIGN KEY checks of the INSERT into claim_refutations (models.py lines 223-224)
RefutationKeysOk(refuting_claim_id, refuted_claim_id) ==
  \/ ~fkEnforced
  \/ ClaimExists(refuting_claim_id) /\ ClaimExists(refuted_claim_id)

CreateClaimRefutation(s, refuting_claim_id, refuted_claim_id, confidence) ==
  /\ Idle(s)
  /\ IF inactive[s]
     THEN RaisesPending(s, "create_claim_refutation")
     ELSE
        /\ IF RefutationKeysOk(refuting_claim_id, refuted_claim_id)
           THEN /\ refutations' = Append(refutations,
                                         [refuting_claim_id |-> refuting_claim_id,
                                          refuted_claim_id |-> refuted_claim_id,
                                          confidence |-> confidence])
                /\ last' = Result("create_claim_refutation", "ok")
                /\ UNCHANGED <<sources, claims, events, histories, inactive>>
           ELSE RaisesIntegrity(s, "create_claim_refutation")
  /\ UNCHANGED <<fkEnforced, sess>>

\* ---- save_investigation_result(investigation_id, event_id, report, credibility_score, started_at)
\* lines 369-377 with session.merge in place of session.add: a repeated
\* investigation_id replaces the stored row
SaveInvestigationResultOverwrites(s, investigation_id, event_id, credibility_score) ==
  /\ Idle(s)
  /\ IF inactive[s]
     THEN RaisesPending(s, "save_investigation_result")
     ELSE
        /\ IF fkEnforced /\ ~EventExists(event_id)
           THEN RaisesIntegrity(s, "save_investigation_result")
           ELSE /\ histories' = [v \in DOMAIN histories \cup {investigation_id} |->
                                  IF v = investigation_id
                                  THEN [event_id |-> event_id, credibility_score |-> credibility_score]
                                  ELSE histories[v]]
                /\ last' = Result("save_investigation_result", "ok")
                /\ UNCHANGED <<sources, claims, events, refutations, inactive>>
  /\ UNCHANGED <<fkEnforced, sess>>

SaveInvestigationResult(s, investigation_id, event_id, credibility_score) ==
  /\ Idle(s)
  /\ IF inactive[s]
     THEN RaisesPending(s, "save_investigation_result")
     ELSE
        /\ IF \/ investigation_id \in DOMAIN histories
              \/ fkEnforced /\ ~EventExists(event_id)
           THEN RaisesIntegrity(s, "save_investigation_result")
           ELSE /\ histories' = histories @@ (investigation_id :>
                                  [event_id |-> event_id, credibility_score |-> credibility_score])
                /\ last' = Result("save_investigation_result", "ok")
                /\ UNCHANGED <<sources, claims, events, refutations, inactive>>
  /\ UNCHANGED <<fkEnforced, sess>>

\* ---- Session.rollback(), called by the callers that handle a failure
\* (connection.py session_scope, the artifact import), never by the repository
SessionRollback(s) ==
  /\ Idle(s)
  /\ inactive[s]
  /\ inactive' = [inactive EXCEPT ![s] = FALSE]
  /\ last' = Result("rollback", "ok")
  /\ UNCHANGED <<store, fkEnforced, sess>>

\* ---- graph_ops.batch_update_source_scores(investigation_results)
RECURSIVE BatchApplyUntilFailure(_, _)
\* lines 324-330 with the loop left at the first entry whose update returns False
BatchApplyUntilFailure(srcs, results) ==
  IF results = <<>> THEN srcs
  ELSE LET r == Head(results)
       IN IF r.source_id # 0 /\ r.score_change # <<>>
          THEN IF r.source_id \in DOMAIN srcs
               THEN BatchApplyUntilFailure(UcsWrite(srcs, r.source_id, srcs[r.source_id].credit_score,
                                                    r.score_change[1]), Tail(results))
               ELSE srcs
          ELSE BatchApplyUntilFailure(srcs, Tail(results))

RECURSIVE BatchApply(_, _)
\* lines 324-330: the sources after the entries, each through update_source_credit_score
BatchApply(srcs, results) ==
  IF results = <<>> THEN srcs
  ELSE LET r == Head(results)
           next == IF r.source_id # 0 /\ r.score_change # <<>> /\ r.source_id \in DOMAIN srcs
                   THEN UcsWrite(srcs, r.source_id, srcs[r.source_id].credit_score, r.score_change[1])
                   ELSE srcs
       IN BatchApply(next, Tail(results))

RECURSIVE BatchUpdated(_, _)
\* lines 322-332: the number of entries whose update returned True
BatchUpdated(srcs, results) ==
  IF results = <<>> THEN 0
  ELSE LET r == Head(results)
       IN (IF r.source_id # 0 /\ r.score_change # <<>> /\ r.source_id \in DOMAIN srcs THEN 1 ELSE 0)
          + BatchUpdated(srcs, Tail(results))

\* An entry that reaches update_source_credit_score
BatchCalls(results) ==
  \E k \in DOMAIN results : results[k].source_id # 0 /\ results[k].score_change # <<>>

BatchUpdateSourceScores(s, results) ==
  /\ Idle(s)
  /\ IF inactive[s] /\ BatchCalls(results)
     THEN RaisesPending(s, "batch_update_source_scores")
     ELSE /\ sources' = BatchApply(sources, results)
          /\ last' = [Result("batch_update_source_scores", "ok") EXCEPT !.ret = BatchUpdated(sources, results)]
          /\ UNCHANGED <<claims, events, histories, refutations, inactive>>
  /\ UNCHANGED <<fkEnforced, sess>>

BatchInputs == UNION {[1..n -> BatchEntries] : n \in 0..MaxBatch}
\* Lists of MaxBatch + 1 entries that all reach update_source_credit_score:
\* changes of either sign for the first Source, and a change for the last
\* Source, which may not exist
BatchRuns ==
  [1..(MaxBatch + 1) -> [source_id : {1}, score_change : {<<d>> : d \in Deltas}]
                        \cup [source_id : {MaxSources}, score_change : {<<-60>>}]]

\* ---- graph_ops.calculate_event_credibility(event_id)
\* repository.get_claims_by_event: the ids of the Claim rows with this event_id
ClaimsOfAnyEvent(event_id) == DOMAIN claims
ClaimsOfEvent(event_id) == {c \in DOMAIN claims : claims[c].event_id = event_id}

\* lines 151-152: the claims of the list in a status
CountStatus(cs, status) == Cardinality({c \in cs : claims[c].status = status})

\* lines 161-164: one score per claim whose Source row exists
ScoredClaims(cs) == {c \in cs : SourceExists(claims[c].source_id)}

RECURSIVE ScoreSum(_)
\* line 167: sum(source_scores)
ScoreSum(cs) ==
  IF cs = {} THEN 0
  ELSE LET c == CHOOSE x \in cs : TRUE
       IN sources[claims[c].source_id].credit_score + ScoreSum(cs \ {c})

\* round(n / d, 0) for n >= 0, d > 0: to the nearest integer, a tie to the even one
RoundDiv(n, d) ==
  LET q == n \div d
      r == n % d
  IN IF 2 * r < d THEN q
     ELSE IF 2 * r > d THEN q + 1
     ELSE IF q % 2 = 0 THEN q ELSE q + 1

\* lines 156-168 with the two terms added without their weights
CredibilityUnweighted(verified, refuted, total, sum, k) ==
  IF k = 0
  THEN RoundDiv(100 * (50 * total + 30 * verified - 40 * refuted), total)
  ELSE RoundDiv(100 * ((50 * total + 30 * verified - 40 * refuted) * k + sum * total),
                total * k)

\* lines 156-171: round(score, 2) in hundredths, from
\* score = 50 + verified/total*30 - refuted/total*40 and, when source_scores
\* has k > 0 entries, score*0.7 + (sum/k)*0.3
Credibility(verified, refuted, total, sum, k) ==
  IF k = 0
  THEN RoundDiv(100 * (50 * total + 30 * verified - 40 * refuted), total)
  ELSE RoundDiv(100 * (7 * (50 * total + 30 * verified - 40 * refuted) * k + 3 * sum * total),
                10 * total * k)

\* line 175 with > in place of >=
ConfidenceAbove(total) == IF total > ConfidenceThreshold THEN "high" ELSE "low"
\* line 175
Confidence(total) == IF total >= ConfidenceThreshold THEN "high" ELSE "low"

\* lines 137-176: the dict returned; credibility_score is in hundredths
CredibilityResult(event_id) ==
  LET cs == ClaimsOfEvent(event_id)
      base == [op |-> "calculate_event_credibility", note |-> "-", ret |-> 0, event_id |-> event_id]
  IN IF ~EventExists(event_id)
     THEN base @@ [res |-> "error"]
     ELSE IF cs = {}
     THEN base @@ [res |-> "ok", credibility_score |-> 5000, confidence |-> "low",
                   reason |-> "No claims to verify"]
     ELSE base @@ [res |-> "ok",
                   credibility_score |-> Credibility(CountStatus(cs, "verified"), CountStatus(cs, "refuted"),
                                                     Cardinality(cs), ScoreSum(ScoredClaims(cs)),
                                                     Cardinality(ScoredClaims(cs))),
                   verified_claims |-> CountStatus(cs, "verified"),
                   refuted_claims |-> CountStatus(cs, "refuted"),
                   total_claims |-> Cardinality(cs),
                   confidence |-> Confidence(Cardinality(cs))]

\* lines 137-176 with the score written back to the Event row and committed
CalculateEventCredibilityStores(s, event_id) ==
  /\ Idle(s)
  /\ IF inactive[s]
     THEN RaisesPending(s, "calculate_event_credibility")
     ELSE /\ last' = CredibilityResult(event_id)
          /\ events' = IF EventExists(event_id)
                       THEN [events EXCEPT ![event_id].credibility_score = CredibilityResult(event_id).credibility_score]
                       ELSE events
          /\ UNCHANGED <<sources, claims, histories, refutations, inactive>>
  /\ UNCHANGED <<fkEnforced, sess>>

CalculateEventCredibility(s, event_id) ==
  /\ Idle(s)
  /\ IF inactive[s]
     THEN RaisesPending(s, "calculate_event_credibility")
     ELSE /\ last' = CredibilityResult(event_id)
          /\ UNCHANGED <<store, inactive>>
  /\ UNCHANGED <<fkEnforced, sess>>

\* ---- repository.get_claims_by_event(event_id)
\* query(Claim).filter_by(event_id=event_id).all() has no ORDER BY: the rows
\* come in the order the table holds them
TableScan == [k \in 1..Len(claims) |-> CHOOSE c \in DOMAIN claims : claims[c].ctid = k]
GetClaimsByEvent(event_id) == SelectSeq(TableScan, LAMBDA c : claims[c].event_id = event_id)

\* ---- graph_ops.generate_event_graph(event_id)
\* lines 236, 251: the node ids f"claim-{claim.id}" and f"source-{claim.source.id}"
ClaimNodeId(claim_id) == "claim-" \o ToString(claim_id)
SourceNodeId(source_id) == "source-" \o ToString(source_id)

\* lines 226-231, 235-240, 255-260: the nodes (the labels are left out)
EventNode(event_id) ==
  [id |-> event_id, type |-> "event", credibility |-> events[event_id].credibility_score]
ClaimNode(c) ==
  [id |-> ClaimNodeId(c), type |-> "claim", status |-> claims[c].status]
SourceNode(i) ==
  [id |-> SourceNodeId(i), type |-> "source", name |-> sources[i].name,
   credit_score |-> sources[i].credit_score]
Edge(from, to, type) == [from |-> from, to |-> to, type |-> type]

HasNode(nodes, id) == \E k \in DOMAIN nodes : nodes[k].id = id

\* lines 234-267 without the test of line 254: a source node for every claim
GraphStepEverySource(g, event_id, c) ==
  LET owner == OwnerOf(c)
      withClaim == [nodes |-> Append(g.nodes, ClaimNode(c)),
                    edges |-> Append(g.edges, Edge(event_id, ClaimNodeId(c), "has_claim"))]
  IN IF owner = 0 THEN withClaim
     ELSE [nodes |-> Append(withClaim.nodes, SourceNode(owner)),
           edges |-> Append(withClaim.edges, Edge(SourceNodeId(owner), ClaimNodeId(c), "made_claim"))]

\* lines 234-267: one pass of the loop over the claims
GraphStep(g, event_id, c) ==
  LET owner == OwnerOf(c)
      withClaim == [nodes |-> Append(g.nodes, ClaimNode(c)),
                    edges |-> Append(g.edges, Edge(event_id, ClaimNodeId(c), "has_claim"))]
  IN IF owner = 0 THEN withClaim
     ELSE [nodes |-> IF HasNode(withClaim.nodes, SourceNodeId(owner))
                     THEN withClaim.nodes
                     ELSE Append(withClaim.nodes, SourceNode(owner)),
           edges |-> Append(withClaim.edges, Edge(SourceNodeId(owner), ClaimNodeId(c), "made_claim"))]

RECURSIVE GraphOver(_, _, _)
GraphOver(g, event_id, cs) ==
  IF cs = <<>> THEN g ELSE GraphOver(GraphStep(g, event_id, Head(cs)), event_id, Tail(cs))

\* lines 216-272: the dict returned
EventGraph(event_id) ==
  IF ~EventExists(event_id)
  THEN [nodes |-> <<>>, edges |-> <<>>]
  ELSE GraphOver([nodes |-> <<EventNode(event_id)>>, edges |-> <<>>], event_id,
                 GetClaimsByEvent(event_id))

GenerateEventGraph(s, event_id) ==
  /\ Idle(s)
  /\ IF inactive[s]
     THEN RaisesPending(s, "generate_event_graph")
     ELSE /\ last' = [op |-> "generate_event_graph", res |-> "ok", note |-> "-", ret |-> 0,
                      event_id |-> event_id, graph |-> EventGraph(event_id)]
          /\ UNCHANGED <<store, inactive>>
  /\ UNCHANGED <<fkEnforced, sess>>

\* ---- graph_ops.generate_propagation_timeline(event_id)
\* datetime.isoformat(): "YYYY-MM-DDTHH:MM:SS", followed by ".ffffff" only when
\* the microsecond is not 0; the string as its fields of fixed width
IsoFormat(t) == IF t[2] = 0 THEN <<t[1]>> ELSE <<t[1], t[2]>>

\* The order of str: the first field that differs decides, a proper prefix is smaller
StrLess(a, b) ==
  \/ a[1] < b[1]
  \/ /\ a[1] = b[1]
     /\ \/ Len(a) < Len(b)
        \/ Len(a) = 2 /\ Len(b) = 2 /\ a[2] < b[2]

\* lines 292-297: the entry of a claim; "claim" is the text of the claim,
\* which tells the claims apart
TimelineEntry(c) ==
  [timestamp |-> IsoFormat(claims[c].timestamp),
   source |-> IF OwnerOf(c) = 0 THEN 0 ELSE sources[OwnerOf(c)].name,
   claim |-> c,
   status |-> claims[c].status]

\* sorted() is stable: an entry goes behind the entries whose key is not greater
InsertByKey(sorted, e) ==
  LET before == SelectSeq(sorted, LAMBDA x : ~StrLess(e.timestamp, x.timestamp))
      after == SelectSeq(sorted, LAMBDA x : StrLess(e.timestamp, x.timestamp))
  IN before \o <<e>> \o after

RECURSIVE SortedByTimestamp(_)
\* lines 290-301: sorted(entries, key=lambda x: x["timestamp"])
SortedByTimestamp(entries) ==
  IF entries = <<>> THEN <<>>
  ELSE InsertByKey(SortedByTimestamp(SubSeq(entries, 1, Len(entries) - 1)), entries[Len(entries)])

Timeline(event_id) ==
  LET cs == GetClaimsByEvent(event_id)
  IN SortedByTimestamp([k \in DOMAIN cs |-> TimelineEntry(cs[k])])

GeneratePropagationTimeline(s, event_id) ==
  /\ Idle(s)
  /\ IF inactive[s]
     THEN RaisesPending(s, "generate_propagation_timeline")
     ELSE /\ last' = [op |-> "generate_propagation_timeline", res |-> "ok", note |-> "-", ret |-> 0,
                      event_id |-> event_id, timeline |-> Timeline(event_id)]
          /\ UNCHANGED <<store, inactive>>
  /\ UNCHANGED <<fkEnforced, sess>>

\* ---- graph_ops.find_refutation_chain(claim_id), find_claim_propagation_path(origin_claim_id, max_depth)
RECURSIVE FollowRefuters(_, _)
\* The claims reached from claim_id along the edges into it, one edge after
\* another for n edges, whether or not a claim was seen before
FollowRefuters(claim_id, n) ==
  IF n = 0 \/ ~\E r \in DOMAIN refutations : refutations[r].refuted_claim_id = claim_id
  THEN <<>>
  ELSE LET r == CHOOSE x \in DOMAIN refutations : refutations[x].refuted_claim_id = claim_id
       IN <<refutations[r].refuting_claim_id>> \o FollowRefuters(refutations[r].refuting_claim_id, n - 1)

\* lines 65-67 with the chain built by following the edges without a visited set
RefutationChainUnguarded(claim_id) == FollowRefuters(claim_id, Len(refutations) + 1)

\* lines 65-67: the chain is not built, the list returned is empty
RefutationChain(claim_id) == <<>>

\* lines 47-50: the path is not built, the list returned is empty
PropagationPath(origin_claim_id, max_depth) == <<>>

\* Neither method reads the Session
FindRefutationChain(s, claim_id) ==
  /\ Idle(s)
  /\ last' = [op |-> "find_refutation_chain", res |-> "ok", note |-> "-", ret |-> claim_id,
              chain |-> RefutationChain(claim_id)]
  /\ UNCHANGED <<store, inactive, fkEnforced, sess>>

FindClaimPropagationPath(s, origin_claim_id, max_depth) ==
  /\ Idle(s)
  /\ last' = [op |-> "find_claim_propagation_path", res |-> "ok", note |-> "-", ret |-> origin_claim_id,
              max_depth |-> max_depth, chain |-> PropagationPath(origin_claim_id, max_depth)]
  /\ UNCHANGED <<store, inactive, fkEnforced, sess>>

\* ---- repository.get_trending_sources(limit)
\* The orders in which ORDER BY total_claims DESC can return the rows: the
\* statement names no second key, rows with equal total_claims come in the
\* order the engine's sort leaves them
TrendingOrders ==
  {o \in [1..Len(sources) -> DOMAIN sources] :
     /\ \A j, k \in 1..Len(sources) : j # k => o[j] # o[k]
     /\ \A j, k \in 1..Len(sources) :
          j < k => sources[o[j]].total_claims >= sources[o[k]].total_claims}

\* lines 454-462: the dict of a row
TrendingEntry(i) ==
  [name |-> sources[i].name, type |-> sources[i].type,
   credit_score |-> sources[i].credit_score, total_claims |-> sources[i].total_claims]

GetTrendingSources(s, limit) ==
  /\ Idle(s)
  /\ IF inactive[s]
     THEN RaisesPending(s, "get_trending_sources")
     ELSE /\ \E o \in TrendingOrders :
               last' = [op |-> "get_trending_sources", res |-> "ok", note |-> "-", ret |-> limit,
                        rows |-> [k \in 1..Min(limit, Len(sources)) |-> TrendingEntry(o[k])]]
          /\ UNCHANGED <<store, inactive>>
  /\ UNCHANGED <<fkEnforced, sess>>

\* ------------------------------------------- demos/ekg_import_json.py
\* The importer opens a database and a Session of its own (SQLite: the foreign
\* keys are not enforced) and keeps a counter per kind of record.
SourceTypes == {"official_media", "social_media", "news_outlet", "blog", "forum", "anonymous", "unknown"}

\* One of _import_sources, _import_events, _import_claims, _import_entities,
\* _import_artifacts, _import_refutations: for record in records, one pass of
\* the loop per record.  Counted is self.stats[kind] += 1, of "errors" in the
\* except branch of the loop
RECURSIVE ImportList(_, _, _)
ImportList(kind, db, recs) ==
  IF recs = <<>> THEN db
  ELSE
    LET rec == Head(recs)
        Counted(d, k) == [d EXCEPT !.stats[k] = @ + 1]
        imported ==
          CASE kind = "sources" ->
                 IF rec.type \notin SourceTypes \/ db.inactive
                 THEN Counted(db, "errors")
                 ELSE IF \E i \in DOMAIN db.sources : db.sources[i].name = rec.name
                 THEN Counted(db, "sources")
                 ELSE Counted([db EXCEPT !.sources = Append(@, NewSource(rec.name, rec.type, rec.url))], "sources")
            \* the commit of create_event fails on an id the table has, and the except
            \* branch leaves the Session as it is
            [] kind = "events" ->
                 IF rec.status \notin EventStatus \/ db.inactive
                 THEN Counted(db, "errors")
                 ELSE IF rec.id \in DOMAIN db.events
                 THEN Counted([db EXCEPT !.inactive = TRUE], "errors")
                 ELSE Counted([db EXCEPT !.events = @ @@ (rec.id :> NewEvent(rec.status))], "events")
            \* lines 209-213: source_id 0 is a record without "source_id", source_name 0
            \* one without "source_name"; 0 is no id
            [] kind = "claims" ->
                 LET source_id ==
                       IF rec.source_id # 0 THEN rec.source_id
                       ELSE IF rec.source_name = 0 THEN 0
                       ELSE IF \E i \in DOMAIN db.sources : db.sources[i].name = rec.source_name
                       THEN CHOOSE i \in DOMAIN db.sources : db.sources[i].name = rec.source_name
                       ELSE 0
                     found == source_id \in DOMAIN db.sources
                 IN IF rec.source_id = 0 /\ rec.source_name # 0 /\ db.inactive
                    THEN Counted(db, "errors")
                    ELSE IF source_id = 0
                    THEN Counted(db, "errors")
                    ELSE IF rec.status \notin ClaimStatus \/ db.inactive
                    THEN Counted(db, "errors")
                    ELSE Counted([db EXCEPT
                                    !.claims = Append(@, [source_id |-> source_id, event_id |-> rec.event_id,
                                                          status |-> rec.status, timestamp |-> T0,
                                                          ctid |-> Len(db.claims) + 1]),
                                    !.sources = CcWrite(@, source_id, found,
                                                        IF found THEN db.sources[source_id].total_claims ELSE 0)],
                                 "claims")
            \* a record without "type" raises KeyError
            [] kind = "entities" ->
                 IF ~rec.typed \/ db.inactive
                 THEN Counted(db, "errors")
                 ELSE Counted([db EXCEPT !.entities = @ \cup {rec.name}], "entities")
            \* the except branch of _import_artifacts rolls the Session back
            [] kind = "artifacts" ->
                 IF ~rec.typed \/ db.inactive
                 THEN Counted([db EXCEPT !.inactive = FALSE], "errors")
                 ELSE Counted([db EXCEPT !.artifacts = @ + 1], "artifacts")
            [] kind = "refutations" ->
                 IF db.inactive
                 THEN Counted(db, "errors")
                 ELSE Counted([db EXCEPT !.refutations =
                                 Append(@, [refuting_claim_id |-> rec.refuting_claim_id,
                                            refuted_claim_id |-> rec.refuted_claim_id,
                                            confidence |-> rec.confidence])],
                              "refutations")
    IN ImportList(kind, imported, Tail(recs))

\* EKGJSONImporter(db_path).import_data(data) on a database file that did not
\* exist: the six arrays in the order of lines 137-159
ImportData(s, data) ==
  LET EmptyDb ==
        [sources |-> <<>>, events |-> NoRows, claims |-> <<>>, entities |-> {},
         artifacts |-> 0, refutations |-> <<>>, inactive |-> FALSE,
         stats |-> [sources |-> 0, events |-> 0, claims |-> 0, entities |-> 0,
                    artifacts |-> 0, refutations |-> 0, errors |-> 0]]
      db ==
        ImportList("refutations",
          ImportList("artifacts",
            ImportList("entities",
              ImportList("claims",
                ImportList("events",
                  ImportList("sources", EmptyDb, data.sources),
                  data.events),
                data.claims),
              data.entities),
            data.artifacts),
          data.refutations)
  IN /\ Idle(s)
     /\ last' = [op |-> "import_data", res |-> "ok", note |-> "-", ret |-> 0,
                 data |-> data, db |-> db]
     /\ UNCHANGED <<store, fkEnforced, inactive, sess>>

\* ---- the bulk export: one JSON object with the arrays of the import format,
\* each object carrying the fields of its entity, written in id order.
\* Export the store, then import the JSON into a new database file
ExportImport(s) ==
  LET ids == CHOOSE q \in [1..Cardinality(DOMAIN events) -> DOMAIN events] :
               \A e \in DOMAIN events : \E k \in DOMAIN q : q[k] = e
      ExportAll ==
        [sources |-> [i \in DOMAIN sources |-> sources[i]],
         events |-> [k \in DOMAIN ids |->
                       [id |-> ids[k], status |-> events[ids[k]].status,
                        credibility_score |-> events[ids[k]].credibility_score]],
         claims |-> [c \in DOMAIN claims |->
                       [source_id |-> claims[c].source_id, source_name |-> 0,
                        event_id |-> claims[c].event_id, status |-> claims[c].status]],
         entities |-> <<>>,
         artifacts |-> <<>>,
         refutations |-> refutations]
  IN /\ ~inactive[s]
     /\ ImportData(s, ExportAll)

\* ------------------------------------------------------------ bookkeeping
\* The claims of source i whose committed status becomes st in this step
EnteringClaims(i, st) ==
  {c \in DOMAIN claims : claims[c].source_id = i /\ SourceExists(i)
                         /\ claims[c].status # st /\ claims'[c].status = st}

\* entered counts the committed status changes into VERIFIED and into REFUTED
CountEntries ==
  entered' = [i \in SourceIds |->
               [verified |-> entered[i].verified + Cardinality(EnteringClaims(i, "verified")),
                refuted |-> entered[i].refuted + Cardinality(EnteringClaims(i, "refuted"))]]

\* applied records the change of a call that reached the UPDATE of source i
RecordChange(i, change) ==
  IF last'.res = "ok" /\ SourceExists(i)
  THEN /\ Len(applied[i]) < MaxDeltas
       /\ applied' = [applied EXCEPT ![i] = Append(@, change)]
  ELSE UNCHANGED applied

\* ------------------------------------------------- one caller after another
\* The repository of one caller: every call runs to its return before the next.
Caller == 1

Next ==
  \/ \E n \in Names :
       FindOrCreateSource(Caller, n, "social_media", "u1") /\ UNCHANGED <<ghost, inv>>
  \/ \E i \in SourceIds, st \in ClaimStatus :
       ClaimsBounded /\ CreateClaim(Caller, i, NoEvent, st, T0) /\ UNCHANGED <<ghost, inv>>
  \/ \E c \in 1..MaxClaims, st \in ClaimStatus :
       UpdateClaimStatus(Caller, c, st) /\ CountersBounded(sources') /\ CountEntries /\ UNCHANGED <<applied, inv>>
  \/ SessionRollback(Caller) /\ UNCHANGED <<ghost, inv>>

Spec == Init /\ [][Next]_vars

\* A store in which find_or_create_source has already created the first sources
InitSourcesOnly ==
  /\ sources \in {[i \in 1..n |-> NewSource(i, "social_media", "u1")] : n \in 1..MaxSources}
  /\ claims = <<>>
  /\ events = NoRows
  /\ histories = NoRows
  /\ refutations = <<>>
  /\ fkEnforced \in BOOLEAN
  /\ inactive = [s \in Sessions |-> FALSE]
  /\ sess = [s \in Sessions |-> IdleSess]
  /\ last = Result("none", "ok")
  /\ entered = NoEntries
  /\ applied = NoApplied
  /\ inv = NoInvestigation

\* ---------------------------------------------- the reputation write path
NextScore ==
  \/ \E i \in SourceIds, d \in Deltas :
       UpdateSourceCreditScore(Caller, i, d) /\ UNCHANGED <<ghost, inv>>
  \/ \E rs \in BatchInputs :
       BatchUpdateSourceScores(Caller, rs) /\ UNCHANGED <<ghost, inv>>

SpecScore == InitSourcesOnly /\ [][NextScore]_vars

\* Lookups by name with differing keyword arguments, between score changes
NextSource ==
  \/ \E kw \in SourceKw, n \in Names :
       FindOrCreateSource(Caller, n, kw.type, kw.url) /\ UNCHANGED <<ghost, inv>>
  \/ \E i \in SourceIds, d \in Deltas :
       UpdateSourceCreditScore(Caller, i, d) /\ UNCHANGED <<ghost, inv>>

SpecSource == Init /\ [][NextSource]_vars

\* The same calls one after another, with the changes of each source recorded
NextFold ==
  \/ \E n \in Names :
       FindOrCreateSource(Caller, n, "social_media", "u1") /\ UNCHANGED <<ghost, inv>>
  \/ \E i \in SourceIds, d \in Deltas :
       UpdateSourceCreditScore(Caller, i, d) /\ RecordChange(i, d) /\ UNCHANGED <<entered, inv>>

SpecFold == Init /\ [][NextFold]_vars

\* Events, claims on them and investigation results, with the calls that can fail
NextStore ==
  \/ \E n \in Names :
       FindOrCreateSource(Caller, n, "social_media", "u1") /\ UNCHANGED <<ghost, inv>>
  \/ \E e \in {"E1"} :
       CreateEvent(Caller, e, "developing") /\ UNCHANGED <<ghost, inv>>
  \/ \E e \in {"E1"}, st \in EventStatus, cs \in OptScores :
       UpdateEventStatus(Caller, e, st, cs) /\ UNCHANGED <<ghost, inv>>
  \/ \E i \in SourceIds, e \in {NoEvent, "E1"} :
       ClaimsBounded /\ CreateClaim(Caller, i, e, "pending", T0) /\ UNCHANGED <<ghost, inv>>
  \/ \E v \in {"I1"}, e \in {"E1"} :
       SaveInvestigationResult(Caller, v, e, 75) /\ UNCHANGED <<ghost, inv>>
  \/ SessionRollback(Caller) /\ UNCHANGED <<ghost, inv>>

SpecStore == Init /\ [][NextStore]_vars

\* The three updates by id, on ids that exist and on ids that do not, by a
\* caller whose earlier calls all committed
NextUpdates ==
  \/ \E n \in Names :
       FindOrCreateSource(Caller, n, "social_media", "u1") /\ UNCHANGED <<ghost, inv>>
  \/ \E e \in {"E1"} \ DOMAIN events :
       CreateEvent(Caller, e, "developing") /\ UNCHANGED <<ghost, inv>>
  \/ \E i \in DOMAIN sources :
       ClaimsBounded /\ CreateClaim(Caller, i, NoEvent, "pending", T0) /\ UNCHANGED <<ghost, inv>>
  \/ \E i \in SourceIds :
       UpdateSourceCreditScore(Caller, i, 60) /\ UNCHANGED <<ghost, inv>>
  \/ \E c \in 1..MaxClaims :
       UpdateClaimStatus(Caller, c, "verified") /\ CountersBounded(sources') /\ CountEntries /\ UNCHANGED <<applied, inv>>
  \/ \E e \in {"E1"}, cs \in OptScores :
       UpdateEventStatus(Caller, e, "investigated", cs) /\ UNCHANGED <<ghost, inv>>

SpecUpdates == Init /\ [][NextUpdates]_vars

\* The flywheel scenario of the demo: each claim of one Source is created as
\* REFUTED (ekg_demo.py lines 157-161), or created and then moved to REFUTED by
\* update_claim_status; then the Source's score is lowered (line 164);
\* statistics are read at any point (lines 143, 166, 171)
ScenarioSource(i) == IF claims = <<>> THEN TRUE ELSE claims[1].source_id = i

NextFlywheel ==
  \/ \E i \in DOMAIN sources, st \in {"refuted", "pending"} :
       /\ ScenarioSource(i) /\ Len(claims) < Rounds /\ Len(applied[i]) = Len(claims)
       /\ CreateClaim(Caller, i, NoEvent, st, T0) /\ UNCHANGED <<ghost, inv>>
  \/ /\ claims # <<>> /\ claims[Len(claims)].status # "refuted"
     /\ UpdateClaimStatus(Caller, Len(claims), "refuted") /\ CountEntries /\ UNCHANGED <<applied, inv>>
  \/ \E i \in DOMAIN sources :
       /\ ScenarioSource(i) /\ claims # <<>> /\ claims[Len(claims)].status = "refuted"
       /\ Len(applied[i]) < Len(claims)
       /\ UpdateSourceCreditScore(Caller, i, CreditScoreDecrement)
       /\ RecordChange(i, CreditScoreDecrement) /\ UNCHANGED <<entered, inv>>
  \/ \E i \in SourceIds :
       GetSourceStatistics(Caller, i) /\ UNCHANGED <<ghost, inv>>

SpecFlywheel == InitSourcesOnly /\ [][NextFlywheel]_vars

\* Events whose claims come from Sources of various scores: the store after
\* the Sources and the Events were created and the scores were changed
InitCredibility ==
  /\ sources \in UNION {{[i \in 1..n |-> [NewSource(i, "social_media", "u1") EXCEPT !.credit_score = sc[i]]]
                           : sc \in [1..n -> ScoreSamples]} : n \in 1..MaxSources}
  /\ claims = <<>>
  /\ events = [e \in EventIds |-> NewEvent("developing")]
  /\ histories = NoRows
  /\ refutations = <<>>
  /\ fkEnforced \in BOOLEAN
  /\ inactive = [s \in Sessions |-> FALSE]
  /\ sess = [s \in Sessions |-> IdleSess]
  /\ last = Result("none", "ok")
  /\ entered = NoEntries
  /\ applied = NoApplied
  /\ inv = NoInvestigation

NextCredibility ==
  \/ \E i \in SourceIds, e \in EventIds, st \in {"pending", "verified", "refuted"} :
       /\ Len(claims) < MaxEventClaims /\ ClaimKeysOk(i, e)
       /\ CreateClaim(Caller, i, e, st, T0) /\ UNCHANGED <<ghost, inv>>
  \/ \E e \in EventIds \cup {NoSuchEvent} :
       CalculateEventCredibility(Caller, e) /\ UNCHANGED <<ghost, inv>>

SpecCredibility == InitCredibility /\ [][NextCredibility]_vars

\* The reads of a Source between the writes that change what they report
NextStatistics ==
  \/ \E n \in Names :
       FindOrCreateSource(Caller, n, "social_media", "u1") /\ UNCHANGED <<ghost, inv>>
  \/ \E i \in SourceIds :
       /\ ClaimsBounded /\ ClaimKeysOk(i, NoEvent)
       /\ CreateClaim(Caller, i, NoEvent, "pending", T0) /\ UNCHANGED <<ghost, inv>>
  \/ \E c \in DOMAIN claims, st \in {"verified", "pending"} :
       UpdateClaimStatus(Caller, c, st) /\ CountersBounded(sources') /\ CountEntries /\ UNCHANGED <<applied, inv>>
  \/ \E i \in DOMAIN sources :
       UpdateSourceCreditScore(Caller, i, -60) /\ UNCHANGED <<ghost, inv>>
  \/ \E i \in SourceIds :
       GetSourceStatistics(Caller, i) /\ UNCHANGED <<ghost, inv>>
  \/ \E n \in Names :
       QuerySourceReputation(Caller, n) /\ UNCHANGED <<ghost, inv>>

SpecStatistics == Init /\ [][NextStatistics]_vars

\* Investigation snapshots saved once and again, between the other writes
NextHistory ==
  \/ \E e \in EventIds \ DOMAIN events :
       CreateEvent(Caller, e, "developing") /\ UNCHANGED <<ghost, inv>>
  \/ \E v \in InvestigationIds, e \in EventIds, cs \in SnapshotScores :
       SaveInvestigationResult(Caller, v, e, cs) /\ UNCHANGED <<ghost, inv>>
  \/ \E e \in EventIds :
       UpdateEventStatus(Caller, e, "investigated", <<75>>) /\ UNCHANGED <<ghost, inv>>
  \/ FindOrCreateSource(Caller, 1, "social_media", "u1") /\ UNCHANGED <<ghost, inv>>
  \/ \E i \in DOMAIN sources, e \in DOMAIN events :
       claims = <<>> /\ CreateClaim(Caller, i, e, "pending", T0) /\ UNCHANGED <<ghost, inv>>
  \/ SessionRollback(Caller) /\ UNCHANGED <<ghost, inv>>

SpecHistory == Init /\ [][NextHistory]_vars

\* An event whose claims are created over time, with timestamps in any
\* order, and refuted; its graph and its timeline are read in between
InitGraph ==
  /\ sources \in {[i \in 1..n |-> NewSource(i, "social_media", "u1")] : n \in 1..MaxSources}
  /\ claims = <<>>
  /\ events = [e \in {"E1"} |-> NewEvent("developing")]
  /\ histories = NoRows
  /\ refutations = <<>>
  /\ fkEnforced \in BOOLEAN
  /\ inactive = [s \in Sessions |-> FALSE]
  /\ sess = [s \in Sessions |-> IdleSess]
  /\ last = Result("none", "ok")
  /\ entered = NoEntries
  /\ applied = NoApplied
  /\ inv = NoInvestigation

NextGraph ==
  \/ \E i \in SourceIds, ts \in Timestamps :
       /\ ClaimsBounded /\ ClaimKeysOk(i, "E1")
       /\ CreateClaim(Caller, i, "E1", "pending", ts) /\ UNCHANGED <<ghost, inv>>
  \/ /\ ClaimsBounded
     /\ CreateClaim(Caller, 1, NoEvent, "pending", T0) /\ UNCHANGED <<ghost, inv>>
  \/ \E c \in DOMAIN claims :
       UpdateClaimStatus(Caller, c, "refuted") /\ UNCHANGED <<ghost, inv>>
  \/ \E e \in {"E1", NoSuchEvent} :
       GenerateEventGraph(Caller, e) /\ UNCHANGED <<ghost, inv>>
  \/ \E e \in {"E1"} :
       GeneratePropagationTimeline(Caller, e) /\ UNCHANGED <<ghost, inv>>

SpecGraph == InitGraph /\ [][NextGraph]_vars

\* Events with claims, moved between the statuses in any order
NextEvents ==
  \/ FindOrCreateSource(Caller, 1, "social_media", "u1") /\ UNCHANGED <<ghost, inv>>
  \/ \E e \in EventIds \ DOMAIN events :
       CreateEvent(Caller, e, "developing") /\ UNCHANGED <<ghost, inv>>
  \/ \E i \in DOMAIN sources, e \in DOMAIN events :
       ClaimsBounded /\ CreateClaim(Caller, i, e, "pending", T0) /\ UNCHANGED <<ghost, inv>>
  \/ \E e \in EventIds, st \in EventStatus, cs \in OptScores :
       UpdateEventStatus(Caller, e, st, cs) /\ UNCHANGED <<ghost, inv>>

SpecEvents == Init /\ [][NextEvents]_vars

\* The most active Sources, read between the claims that make them active
NextTrending ==
  \/ \E n \in Names :
       FindOrCreateSource(Caller, n, "social_media", "u1") /\ UNCHANGED <<ghost, inv>>
  \/ \E i \in DOMAIN sources :
       ClaimsBounded /\ CreateClaim(Caller, i, NoEvent, "pending", T0) /\ UNCHANGED <<ghost, inv>>
  \/ \E limit \in Limits :
       GetTrendingSources(Caller, limit) /\ UNCHANGED <<ghost, inv>>

SpecTrending == Init /\ [][NextTrending]_vars

\* Batches whose entries name Sources that exist and Sources that do not
NextBatch ==
  \/ \E rs \in BatchRuns :
       BatchUpdateSourceScores(Caller, rs) /\ UNCHANGED <<ghost, inv>>
  \/ \E i \in SourceIds :
       GetSourceStatistics(Caller, i) /\ UNCHANGED <<ghost, inv>>

SpecBatch == InitSourcesOnly /\ [][NextBatch]_vars

\* The operations of the graph engine between the writes of the repository;
\* each refutation edge goes from a claim to the next one and from the last
\* claim to the first, so that the edges close a cycle
NextReads ==
  \/ \E e \in {"E1"} \ DOMAIN events :
       CreateEvent(Caller, e, "developing") /\ UNCHANGED <<ghost, inv>>
  \/ \E e \in DOMAIN events :
       ClaimsBounded /\ CreateClaim(Caller, 1, e, "verified", T0) /\ UNCHANGED <<ghost, inv>>
  \/ \E a \in DOMAIN claims :
       /\ Len(refutations) < MaxRefutations
       /\ CreateClaimRefutation(Caller, a, (a % Len(claims)) + 1, 90) /\ UNCHANGED <<ghost, inv>>
  \/ \E e \in {"E1"} :
       CalculateEventCredibility(Caller, e) /\ UNCHANGED <<ghost, inv>>
  \/ \E e \in {"E1"} :
       GenerateEventGraph(Caller, e) /\ UNCHANGED <<ghost, inv>>
  \/ \E e \in {"E1"} :
       GeneratePropagationTimeline(Caller, e) /\ UNCHANGED <<ghost, inv>>
  \/ \E c \in 1..MaxClaims :
       FindRefutationChain(Caller, c) /\ UNCHANGED <<ghost, inv>>
  \/ \E c \in 1..MaxClaims, d \in Depths :
       FindClaimPropagationPath(Caller, c, d) /\ UNCHANGED <<ghost, inv>>
  \/ \E rs \in [1..MaxBatch -> [source_id : SourceIds, score_change : {<<-60>>}]] :
       BatchUpdateSourceScores(Caller, rs) /\ UNCHANGED <<ghost, inv>>

SpecReads == InitSourcesOnly /\ [][NextReads]_vars

\* Refutation edges between the claims of a Source
NextRefutation ==
  \/ /\ ClaimsBounded
     /\ CreateClaim(Caller, 1, NoEvent, "pending", T0) /\ UNCHANGED <<ghost, inv>>
  \/ \E a \in 1..MaxClaims, b \in 1..MaxClaims, cf \in ConfidenceSamples :
       /\ Len(refutations) < MaxRefutations
       /\ CreateClaimRefutation(Caller, a, b, cf) /\ UNCHANGED <<ghost, inv>>
  \/ SessionRollback(Caller) /\ UNCHANGED <<ghost, inv>>

SpecRefutation == InitSourcesOnly /\ [][NextRefutation]_vars

\* A store is built, exported and imported again
NextImport ==
  \/ \E n \in Names :
       FindOrCreateSource(Caller, n, "blog", "u2") /\ UNCHANGED <<ghost, inv>>
  \/ \E i \in DOMAIN sources :
       UpdateSourceCreditScore(Caller, i, -60) /\ UNCHANGED <<ghost, inv>>
  \/ /\ ~EventExists("E1")
     /\ CreateEvent(Caller, "E1", "developing") /\ UNCHANGED <<ghost, inv>>
  \/ \E i \in DOMAIN sources, st \in {"pending", "refuted"} :
       /\ ClaimsBounded /\ EventExists("E1")
       /\ CreateClaim(Caller, i, "E1", st, T0) /\ UNCHANGED <<ghost, inv>>
  \/ \E c \in DOMAIN claims :
       UpdateClaimStatus(Caller, c, "verified") /\ CountEntries /\ UNCHANGED <<applied, inv>>
  \/ \E a \in DOMAIN claims :
       /\ Len(refutations) < MaxRefutations
       /\ CreateClaimRefutation(Caller, a, (a % Len(claims)) + 1, 90) /\ UNCHANGED <<ghost, inv>>
  \/ ExportImport(Caller) /\ UNCHANGED <<ghost, inv>>

SpecImport == Init /\ [][NextImport]_vars

\* Documents are imported, each into a database file of its own
\* The JSON documents handed to the importer: arrays of at most MaxBatch
\* events and at most one record of every other kind, with unknown
\* enumeration values ("tabloid", "closed", "debunked"), a repeated event id
\* and a source name no record introduces among them
NextBulk ==
  LET Documents ==
        LET UpTo(S, n) == UNION {[1..k -> S] : k \in 0..n}
        IN [sources : UpTo({[name |-> 1, type |-> "blog", url |-> "u2"],
                            [name |-> 2, type |-> "tabloid", url |-> "u1"]}, 1),
            events : UpTo({[id |-> "E1", status |-> "developing"], [id |-> "E1", status |-> "verified"],
                           [id |-> "E2", status |-> "closed"]}, MaxBatch),
            claims : UpTo({[source_id |-> 0, source_name |-> 1, event_id |-> "E1", status |-> "verified"],
                           [source_id |-> 0, source_name |-> 2, event_id |-> NoEvent, status |-> "pending"],
                           [source_id |-> 1, source_name |-> 0, event_id |-> "E1", status |-> "debunked"]}, 1),
            entities : UpTo({[name |-> 1, typed |-> TRUE]}, 1),
            artifacts : UpTo({[typed |-> TRUE]}, 1),
            refutations : UpTo({[refuting_claim_id |-> 2, refuted_claim_id |-> 1, confidence |-> 90]}, 1)]
  IN \E data \in Documents : ImportData(Caller, data) /\ UNCHANGED <<ghost, inv>>

SpecBulk == Init /\ [][NextBulk]_vars

\* ------------------------------------------- the handlers, statement by statement
\* Several callers, each with a Session of its own on the one database
\* (READ COMMITTED: every SELECT sees what is committed when it runs, and the
\* UPDATEs of a flush carry the values the Session computed from what it read).

Returns(s) == sess' = [sess EXCEPT ![s] = IdleSess]

\* find_or_create_source line 54: the SELECT by name; a Source that is found
\* is returned at once
FocRead(s, name, type, url) ==
  /\ Idle(s)
  /\ IF inactive[s]
     THEN RaisesPending(s, "find_or_create_source") /\ UNCHANGED sess
     ELSE IF SourceIdByName(name) # 0
     THEN /\ last' = Found(SourceIdByName(name), type, url)
          /\ UNCHANGED <<store, inactive, sess>>
     ELSE /\ sess' = [sess EXCEPT ![s] = [IdleSess EXCEPT !.pc = "foc", !.id = name, !.st = type, !.ev = url]]
          /\ UNCHANGED <<store, inactive, last>>
  /\ UNCHANGED fkEnforced

\* find_or_create_source lines 56-63: the INSERT and the commit; the UNIQUE
\* index on sources.name (models.py line 62) rejects a name that is there by now
FocCommit(s) ==
  /\ sess[s].pc = "foc"
  /\ IF SourceIdByName(sess[s].id) # 0
     THEN RaisesIntegrity(s, "find_or_create_source")
     ELSE /\ sources' = Append(sources, NewSource(sess[s].id, sess[s].st, sess[s].ev))
          /\ last' = Created(Len(sources) + 1)
          /\ UNCHANGED <<claims, events, histories, refutations, inactive>>
  /\ Returns(s)
  /\ UNCHANGED fkEnforced

\* update_source_credit_score lines 90-92: the SELECT of the source row
UcsRead(s, source_id, change) ==
  /\ Idle(s)
  /\ IF inactive[s]
     THEN RaisesPending(s, "update_source_credit_score") /\ UNCHANGED sess
     ELSE IF ~SourceExists(source_id)
     THEN /\ last' = Result("update_source_credit_score", "false")
          /\ UNCHANGED <<store, inactive, sess>>
     ELSE /\ sess' = [sess EXCEPT ![s] = [IdleSess EXCEPT !.pc = "ucs", !.id = source_id, !.arg = change,
                                                           !.cnt = sources[source_id].credit_score]]
          /\ UNCHANGED <<store, inactive, last>>
  /\ UNCHANGED fkEnforced

\* update_source_credit_score lines 95-100: the new score and the commit
UcsCommit(s) ==
  /\ sess[s].pc = "ucs"
  /\ sources' = UcsWrite(sources, sess[s].id, sess[s].cnt, sess[s].arg)
  /\ last' = Result("update_source_credit_score", "ok")
  /\ Returns(s)
  /\ UNCHANGED <<claims, events, histories, refutations, inactive, fkEnforced>>

\* create_claim lines 211-222: the new Claim and the SELECT of the source row
CcRead(s, source_id, event_id, status) ==
  /\ Idle(s)
  /\ IF inactive[s]
     THEN RaisesPending(s, "create_claim") /\ UNCHANGED sess
     ELSE /\ sess' = [sess EXCEPT ![s] = [IdleSess EXCEPT !.pc = "cc", !.id = source_id, !.ev = event_id,
                                                           !.st = status,
                                                           !.arg = IF SourceExists(source_id) THEN 1 ELSE 0,
                                                           !.cnt = IF SourceExists(source_id)
                                                                   THEN sources[source_id].total_claims ELSE 0]]
          /\ UNCHANGED <<store, inactive, last>>
  /\ UNCHANGED fkEnforced

\* create_claim lines 224-225: the flush (INSERT, UPDATE) and the commit
CcCommit(s) ==
  /\ sess[s].pc = "cc"
  /\ IF ClaimKeysOk(sess[s].id, sess[s].ev)
     THEN /\ claims' = Append(claims, NewClaim(sess[s].id, sess[s].ev, sess[s].st, T0))
          /\ sources' = CcWrite(sources, sess[s].id, sess[s].arg = 1, sess[s].cnt)
          /\ last' = Result("create_claim", "ok")
          /\ UNCHANGED <<events, histories, refutations, inactive>>
     ELSE RaisesIntegrity(s, "create_claim")
  /\ Returns(s)
  /\ UNCHANGED fkEnforced

\* update_claim_status lines 244-252: the SELECT of the claim row
UclReadClaim(s, claim_id, status) ==
  /\ Idle(s)
  /\ IF inactive[s]
     THEN RaisesPending(s, "update_claim_status") /\ UNCHANGED sess
     ELSE IF ~ClaimExists(claim_id)
     THEN /\ last' = Result("update_claim_status", "false")
          /\ UNCHANGED <<store, inactive, sess>>
     ELSE /\ sess' = [sess EXCEPT ![s] = [IdleSess EXCEPT !.pc = "ucl_claim", !.id = claim_id, !.st = status,
                                                           !.old = claims[claim_id].status]]
          /\ UNCHANGED <<store, inactive, last>>
  /\ UNCHANGED fkEnforced

\* update_claim_status line 255: claim.source, the SELECT of the owner's row
UclReadSource(s) ==
  /\ sess[s].pc = "ucl_claim"
  /\ LET owner == OwnerOf(sess[s].id)
     IN sess' = [sess EXCEPT ![s] = [@ EXCEPT !.pc = "ucl_source", !.arg = owner,
                                               !.cnt = IF owner = 0 THEN 0 ELSE sources[owner].verified_claims,
                                               !.cnt2 = IF owner = 0 THEN 0 ELSE sources[owner].refuted_claims]]
  /\ UNCHANGED <<store, inactive, last, fkEnforced>>

\* update_claim_status lines 256-263: the counters and the commit
UclCommit(s) ==
  /\ sess[s].pc = "ucl_source"
  /\ claims' = UclClaimWrite(claims, sess[s].id, sess[s].old, sess[s].st)
  /\ sources' = UclWrite(sources, sess[s].arg, sess[s].old, sess[s].st, sess[s].cnt, sess[s].cnt2)
  /\ last' = StatusResult(sess[s].old, sess[s].st)
  /\ Returns(s)
  /\ UNCHANGED <<events, histories, refutations, inactive, fkEnforced>>

\* update_claim_status lines 249-262 with the status written on its own:
\* a failure after line 249 keeps the new status and loses the counter
UclFailKeepsStatus(s) ==
  /\ sess[s].pc \in {"ucl_claim", "ucl_source"}
  /\ claims' = UclClaimWrite(claims, sess[s].id, sess[s].old, sess[s].st)
  /\ last' = [Result("update_claim_status", "raised") EXCEPT !.note = sess[s].pc]
  /\ Returns(s)
  /\ UNCHANGED <<sources, events, histories, refutations, inactive, fkEnforced>>

\* update_claim_status lines 249-262: the caller fails (an exception, a crash)
\* before commit() at line 262; the transaction is never committed
UclFail(s) ==
  /\ sess[s].pc \in {"ucl_claim", "ucl_source"}
  /\ last' = [Result("update_claim_status", "raised") EXCEPT !.note = sess[s].pc]
  /\ Returns(s)
  /\ UNCHANGED <<store, inactive, fkEnforced>>

\* Concurrent score updates
NextConcScore ==
  \/ \E s \in Sessions, i \in SourceIds, d \in Deltas :
       UcsRead(s, i, d) /\ UNCHANGED <<ghost, inv>>
  \/ \E s \in Sessions :
       /\ UcsCommit(s)
       /\ Len(applied[sess[s].id]) < MaxDeltas
       /\ applied' = [applied EXCEPT ![sess[s].id] = Append(@, sess[s].arg)]
       /\ UNCHANGED <<entered, inv>>

SpecConcScore == InitSourcesOnly /\ [][NextConcScore]_vars

\* Investigations of one orchestrator, one after another
NextPipeline ==
  \/ \E config \in {[k \in DOMAIN AgentOrder |-> k # off] : off \in 0..Len(AgentOrder)},
          submission_given \in BOOLEAN :
       StartInvestigation(config, submission_given) /\ UNCHANGED ghost
  \/ \E outcome \in {"completed", "completed_with_errors", "failed", "failed_without_errors",
                      "returns_none", "pre_raises", "execute_raises", "post_raises"} :
       RunNextAgent(outcome) /\ UNCHANGED ghost
  \/ ReturnInvestigation /\ UNCHANGED ghost

SpecPipeline == Init /\ [][NextPipeline]_vars

\* Several callers finding or creating Sources by name
NextConcSource ==
  \/ \E s \in Sessions, n \in Names, kw \in SourceKw :
       FocRead(s, n, kw.type, kw.url) /\ UNCHANGED <<ghost, inv>>
  \/ \E s \in Sessions :
       /\ Len(sources) < MaxSources
       /\ FocCommit(s) /\ UNCHANGED <<ghost, inv>>

SpecConcSource == Init /\ [][NextConcSource]_vars

\* Score updates of several callers among each other and among claim creations
NextFrame ==
  \/ \E s \in Sessions, i \in SourceIds :
       UcsRead(s, i, -60) /\ UNCHANGED <<ghost, inv>>
  \/ \E s \in Sessions : UcsCommit(s) /\ UNCHANGED <<ghost, inv>>
  \/ \E i \in DOMAIN sources :
       CcRead(Caller, i, NoEvent, "verified") /\ UNCHANGED <<ghost, inv>>
  \/ ClaimsBounded /\ CcCommit(Caller) /\ UNCHANGED <<ghost, inv>>

SpecFrame == InitSourcesOnly /\ [][NextFrame]_vars

\* One caller creating claims of the first Source and moving them between
\* the statuses, next to score updates
NextCounters ==
  \/ \E st \in ClaimStatus :
       ClaimsBounded /\ CreateClaim(Caller, 1, NoEvent, st, T0) /\ UNCHANGED <<ghost, inv>>
  \/ \E c \in DOMAIN claims, st \in ClaimStatus :
       UpdateClaimStatus(Caller, c, st) /\ CountersBounded(sources') /\ UNCHANGED <<ghost, inv>>
  \/ \E i \in DOMAIN sources :
       UpdateSourceCreditScore(Caller, i, -60) /\ UNCHANGED <<ghost, inv>>

SpecCounters == InitSourcesOnly /\ [][NextCounters]_vars

\* Concurrent claim creation and status updates on existing sources
NextConcClaims ==
  \/ \E s \in Sessions :
       CcRead(s, 1, NoEvent, "pending") /\ UNCHANGED <<ghost, inv>>
  \/ \E s \in Sessions : ClaimsBounded /\ CcCommit(s) /\ UNCHANGED <<ghost, inv>>
  \/ \E s \in Sessions, c \in DOMAIN claims, st \in {"verified", "refuted"} :
       UclReadClaim(s, c, st) /\ UNCHANGED <<ghost, inv>>
  \/ \E s \in Sessions : UclReadSource(s) /\ UNCHANGED <<ghost, inv>>
  \/ \E s \in Sessions : UclCommit(s) /\ CountersBounded(sources') /\ CountEntries /\ UNCHANGED <<applied, inv>>

SpecConcClaims == InitSourcesOnly /\ [][NextConcClaims]_vars

\* One caller whose update_claim_status may fail at any statement
NextCrash ==
  \/ \E i \in DOMAIN sources, st \in ClaimStatus :
       ClaimsBounded /\ CreateClaim(Caller, i, NoEvent, st, T0) /\ UNCHANGED <<ghost, inv>>
  \/ \E c \in 1..MaxClaims, st \in ClaimStatus :
       UclReadClaim(Caller, c, st) /\ UNCHANGED <<ghost, inv>>
  \/ UclReadSource(Caller) /\ UNCHANGED <<ghost, inv>>
  \/ UclCommit(Caller) /\ CountersBounded(sources') /\ CountEntries /\ UNCHANGED <<applied, inv>>
  \/ UclFail(Caller) /\ CountEntries /\ UNCHANGED <<applied, inv>>

SpecCrash == InitSourcesOnly /\ [][NextCrash]_vars

\* ======================================================================
\* Properties
\* ======================================================================

\* C1: in every state reached by repository calls, update_source_credit_score
\* with changes of either sign and batch_update_source_scores included, every
\* Source's credit_score is an integer between 0 and 100.
C1_CreditScoreInRange ==
  \A i \in DOMAIN sources : sources[i].credit_score \in 0..100

\* Both ends of the range are reached by a clamped change.
C1_Witness ==
  /\ last.op = "batch_update_source_scores" /\ last.ret >= 2
  /\ \E i \in DOMAIN sources, j \in DOMAIN sources :
       sources[i].credit_score = 0 /\ sources[j].credit_score = 100

\* The claims of source i that the status change of this step brings into st
ExactIncrement ==
  \A i \in DOMAIN sources :
    /\ sources'[i].verified_claims =
         sources[i].verified_claims + Cardinality(EnteringClaims(i, "verified"))
    /\ sources'[i].refuted_claims =
         sources[i].refuted_claims + Cardinality(EnteringClaims(i, "refuted"))

CountersEqualEntries ==
  \A i \in DOMAIN sources :
    /\ sources[i].verified_claims = entered[i].verified
    /\ sources[i].refuted_claims = entered[i].refuted

\* C2: every step adds to a Source's verified_claims (refuted_claims) exactly
\* the number of its claims whose status changes into VERIFIED (REFUTED) from
\* another status in that step, so a call repeating the current status adds
\* nothing, and each counter equals the number of entry transitions so far.
C2_CountsEntryTransitions ==
  /\ [][ExactIncrement]_vars
  /\ []CountersEqualEntries

\* A call repeated the current status of a claim whose entry was counted once,
\* and more than one claim of the source took part.
C2_Witness ==
  /\ last.op = "update_claim_status" /\ last.note = "repeat"
  /\ \E i \in DOMAIN sources :
       /\ sources[i].verified_claims = 1
       /\ sources[i].refuted_claims = 1
       /\ \E c \in DOMAIN claims : claims[c].source_id = i /\ claims[c].status = "verified"

ClaimsOf(i) == {c \in DOMAIN claims : claims[c].source_id = i}

\* C3: after any sequence of repository calls every Source's total_claims
\* equals the number of Claims whose source_id is that Source.
C3_TotalClaimsMatch ==
  \A i \in DOMAIN sources : sources[i].total_claims = Cardinality(ClaimsOf(i))

RECURSIVE FoldClamped(_, _)
FoldClamped(score, deltas) ==
  IF deltas = <<>> THEN score
  ELSE LET v == score + Head(deltas)
       IN FoldClamped(IF v < 0 THEN 0 ELSE IF v > 100 THEN 100 ELSE v, Tail(deltas))

RECURSIVE SumOf(_)
SumOf(deltas) == IF deltas = <<>> THEN 0 ELSE Head(deltas) + SumOf(Tail(deltas))

\* C5: after update_source_credit_score calls made one after another on a
\* Source, its credit_score is the fold of max(0, min(100, score + delta))
\* over the deltas in call order, starting from the score it was created with.
C5_SequentialFold ==
  \A i \in DOMAIN sources : sources[i].credit_score = FoldClamped(50, applied[i])

\* A sequence whose fold differs from clamping initial + sum once.
C5_Witness ==
  \E i \in DOMAIN sources :
    /\ Len(applied[i]) >= 3
    /\ sources[i].credit_score # FoldClamped(50, <<SumOf(applied[i])>>)

\* The orders in which the changes applied to source i can be arranged
Orders(i) ==
  {[k \in 1..Len(applied[i]) |-> applied[i][f[k]]] : f \in Permutations(1..Len(applied[i]))}

\* C4: once concurrent update_source_credit_score calls on a Source have all
\* returned, its credit_score is what applying their changes one after
\* another, each clamped, gives in some order of the calls.
C4_NoLostScoreUpdate ==
  AllIdle => \A i \in DOMAIN sources :
               sources[i].credit_score \in {FoldClamped(50, o) : o \in Orders(i)}

\* C6: once concurrent create_claim and update_claim_status calls have all
\* committed, total_claims is the number of Claims of the Source and
\* verified_claims, refuted_claims are the numbers of entry transitions made.
C6_NoLostCounterIncrement ==
  AllIdle => \A i \in DOMAIN sources :
               /\ sources[i].total_claims = Cardinality(ClaimsOf(i))
               /\ sources[i].verified_claims = entered[i].verified
               /\ sources[i].refuted_claims = entered[i].refuted

C8_FindOrCreateIdempotent ==
  /\ [](\A i \in DOMAIN sources, j \in DOMAIN sources :
          sources[i].name = sources[j].name => i = j)
  /\ [][last'.op = "find_or_create_source" /\ last'.res = "ok" =>
          /\ \A i \in DOMAIN sources : sources'[i] = sources[i]
          /\ last'.ret \in DOMAIN sources'
          /\ last'.note # "created" => sources' = sources
          /\ \A i \in DOMAIN sources : sources[i].name = sources'[last'.ret].name => last'.ret = i]_vars

\* A call named an existing Source with another type and url after its score
\* had changed.
C8_Witness ==
  /\ last.op = "find_or_create_source" /\ last.note = "found_other"
  /\ sources[last.ret].credit_score # 50
  /\ Len(sources) >= 2

\* C9: a create_claim call whose source_id matches no Source inserts no Claim.
C9_NoClaimWithoutSource ==
  [][Len(claims') > Len(claims) => SourceExists(claims'[Len(claims')].source_id)]_vars

\* C10: a repository call that returns failure or raises leaves the stored
\* rows as they were and the repository usable for the next call.
C10_FailedCallRecovers ==
  [][last'.res \in {"raised", "false"} => store' = store /\ ~inactive'[Caller]]_vars

\* C11: update_source_credit_score, update_claim_status and
\* update_event_status called with an id that matches no row return False, and
\* a call that returns False leaves every Source, Claim and Event as it was.
C11_NotFoundChangesNothing ==
  [][/\ last'.res = "false" => store' = store
     /\ \A i \in SourceIds, d \in Deltas :
          UpdateSourceCreditScore(Caller, i, d) /\ ~SourceExists(i)
            => last'.res = "false" /\ store' = store
     /\ \A c \in 1..MaxClaims, st \in ClaimStatus :
          UpdateClaimStatus(Caller, c, st) /\ ~ClaimExists(c)
            => last'.res = "false" /\ store' = store
     /\ \A e \in EventIds, st \in EventStatus, cs \in OptScores :
          UpdateEventStatus(Caller, e, st, cs) /\ ~EventExists(e)
            => last'.res = "false" /\ store' = store]_vars

\* update_event_status returned False for an unknown event while Sources,
\* a Claim with a counted transition and a changed score were stored.
C11_Witness ==
  /\ last.op = "update_event_status" /\ last.res = "false"
  /\ \E i \in DOMAIN sources : sources[i].credit_score # 50 /\ sources[i].verified_claims = 1
  /\ Len(sources) < MaxSources

\* The rounds of the scenario completed on Source i
RoundsDone(i) == IF claims # <<>> /\ claims[1].source_id = i THEN Len(applied[i]) ELSE 0

\* C12: a Source starts at credit_score 50; each of three claims of it is
\* created and made REFUTED, and followed by update_source_credit_score(-5).
\* After the 1st, 2nd and 3rd round refuted_claims is 1, 2, 3 and credit_score
\* is 45, 40, 35, and every statistics read reports accuracy_rate 0.
C12_FlywheelTrace ==
  /\ \A i \in DOMAIN sources :
       RoundsDone(i) = Len(claims) /\ Len(claims) > 0 =>
         /\ <<Len(claims), sources[i].refuted_claims, sources[i].credit_score>>
               \in {<<1, 1, 45>>, <<2, 2, 40>>, <<3, 3, 35>>}
         /\ last.op = "get_source_statistics" /\ last.ret = i =>
               /\ last.statistics.refuted_claims = Len(claims)
               /\ last.statistics.credit_score = 50 - 5 * Len(claims)
  /\ last.op = "get_source_statistics" /\ last.res = "ok" =>
       last.statistics.accuracy_rate = Zero /\ last.statistics.verified_claims = 0

\* The claims stored for event e, and those of them in a status
EventClaims(e) == {c \in DOMAIN claims : claims[c].event_id = e}
EventClaimsIn(e, st) == {c \in EventClaims(e) : claims[c].status = st}
\* The distinct Sources behind the claims of event e
EventSources(e) == {claims[c].source_id : c \in EventClaims(e)} \cap DOMAIN sources

RECURSIVE SumOfScores(_)
SumOfScores(S) ==
  IF S = {} THEN 0
  ELSE LET i == CHOOSE x \in S : TRUE IN sources[i].credit_score + SumOfScores(S \ {i})

\* 0.7 * (50 + 30 * verified/total - 40 * refuted/total) + 0.3 * M in hundredths,
\* to two decimals, M the mean credit_score of the distinct Sources of event e
BlendOverDistinctSources(e) ==
  LET t == Cardinality(EventClaims(e))
      v == Cardinality(EventClaimsIn(e, "verified"))
      r == Cardinality(EventClaimsIn(e, "refuted"))
      k == Cardinality(EventSources(e))
  IN RoundDiv(100 * (7 * (50 * t + 30 * v - 40 * r) * k + 3 * SumOfScores(EventSources(e)) * t),
              10 * t * k)

\* calculate_event_credibility has just returned a result for an existing event
Calculated == last.op = "calculate_event_credibility" /\ last.res = "ok"

\* C13: for an event with at least one claim, calculate_event_credibility
\* returns 0.7 * (50 + 30 * verified/total - 40 * refuted/total) + 0.3 * M, M the
\* mean credit_score of the distinct Sources behind the claims, each counted
\* once; one VERIFIED claim from a Source at 80 and one REFUTED claim from a
\* Source at 20 give 50.0.
C13_BlendWithDistinctSourceMean ==
  Calculated /\ EventClaims(last.event_id) # {} /\ EventSources(last.event_id) # {} =>
    /\ last.credibility_score = BlendOverDistinctSources(last.event_id)
    /\ (\E c, d \in EventClaims(last.event_id) :
          /\ EventClaims(last.event_id) = {c, d}
          /\ claims[c].status = "verified" /\ claims[d].status = "refuted"
          /\ claims[c].source_id \in DOMAIN sources /\ claims[d].source_id \in DOMAIN sources
          /\ sources[claims[c].source_id].credit_score = 80
          /\ sources[claims[d].source_id].credit_score = 20)
        => last.credibility_score = 5000

\* C14: with every Source's credit_score in [0,100], the score returned by
\* calculate_event_credibility lies in [0,100] for every combination of claim
\* statuses.
C14_CredibilityInRange ==
  Calculated => last.credibility_score \in 0..10000

\* The lowest score: three REFUTED claims from Sources at 0.
C14_Witness ==
  /\ Calculated /\ Cardinality(EventClaims(last.event_id)) = 3
  /\ EventClaimsIn(last.event_id, "refuted") = EventClaims(last.event_id)
  /\ \A i \in EventSources(last.event_id) : sources[i].credit_score = 0
  /\ last.credibility_score = 700

\* C15: calculate_event_credibility on an existing event without claims
\* returns 50.0 with confidence "low" and a reason, whatever Sources and
\* Claims of other events are stored.
C15_NoClaimsIsNeutral ==
  Calculated /\ EventClaims(last.event_id) = {} =>
    /\ last.credibility_score = 5000
    /\ last.confidence = "low"
    /\ "reason" \in DOMAIN last

\* The event has no claims while another event has three, one of them VERIFIED.
C15_Witness ==
  /\ Calculated /\ EventClaims(last.event_id) = {}
  /\ Len(claims) = 3
  /\ \E c \in DOMAIN claims : claims[c].status = "verified" /\ claims[c].event_id \in DOMAIN events

BundleOf(b, i) ==
  /\ b.total_claims = sources[i].total_claims
  /\ b.verified_claims = sources[i].verified_claims
  /\ b.refuted_claims = sources[i].refuted_claims
  /\ b.credit_score = sources[i].credit_score
  /\ b.accuracy_rate.den > 0
  /\ IF sources[i].total_claims = 0
     THEN b.accuracy_rate.num = 0
     ELSE b.accuracy_rate.num * sources[i].total_claims
            = 100 * sources[i].verified_claims * b.accuracy_rate.den

\* C17: get_source_statistics returns accuracy_rate 0 when the Source's
\* total_claims is 0 and verified_claims / total_claims * 100 otherwise, with
\* the Source's current total, verified, refuted counters and credit_score.
C17_StatisticsOfSource ==
  last.op = "get_source_statistics" /\ last.res = "ok" =>
    last.ret \in DOMAIN sources /\ BundleOf(last.statistics, last.ret)

\* Statistics of a Source with one of two claims verified and a lowered score,
\* next to a Source without claims.
C17_Witness ==
  /\ last.op = "get_source_statistics" /\ last.res = "ok"
  /\ last.statistics.total_claims = 2 /\ last.statistics.verified_claims = 1
  /\ last.statistics.accuracy_rate = Quotient(50, 1)
  /\ last.statistics.credit_score = 0
  /\ \E j \in DOMAIN sources : sources[j].total_claims = 0

\* C18: query_source_reputation returns None, raising nothing and creating
\* no Source, when no Source has the name; otherwise it returns the Source's
\* current credit_score and the statistics get_source_statistics reports for
\* that Source at that moment.
C18_ReputationByName ==
  /\ [](last.op = "query_source_reputation" =>
          /\ last.res \in {"none", "ok"}
          /\ last.res = "none" => \A i \in DOMAIN sources : sources[i].name # last.name
          /\ last.res = "ok" =>
               /\ last.ret \in DOMAIN sources
               /\ sources[last.ret].name = last.name
               /\ last.credit_score = sources[last.ret].credit_score
               /\ BundleOf(last.statistics, last.ret))
  /\ [][last'.op = "query_source_reputation" => store' = store]_vars

\* The reputation of a Source whose score and counters had changed, while
\* another name is still unknown.
C18_Witness ==
  /\ last.op = "query_source_reputation" /\ last.res = "ok"
  /\ last.credit_score = 0
  /\ last.statistics.verified_claims = 1
  /\ Len(sources) < MaxSources

\* C19: create_claim_refutation rejects a self-loop, so no stored refutation
\* edge has refuting_claim_id equal to refuted_claim_id.
C19_NoSelfLoop ==
  \A r \in DOMAIN refutations :
    refutations[r].refuting_claim_id # refutations[r].refuted_claim_id

\* C20: create_claim_refutation validates its confidence argument, so every
\* stored refutation edge has a confidence between 0 and 1.
C20_ConfidenceInUnitInterval ==
  \A r \in DOMAIN refutations : refutations[r].confidence \in 0..100

\* C21: every stored refutation edge references two existing Claims:
\* create_claim_refutation with a refuting or refuted id that matches no
\* Claim creates no edge.
C21_EdgesReferenceClaims ==
  \A r \in DOMAIN refutations :
    ClaimExists(refutations[r].refuting_claim_id) /\ ClaimExists(refutations[r].refuted_claim_id)

\* C22: investigation snapshots are write-once: save_investigation_result
\* with an investigation_id that already has a snapshot fails and leaves the
\* snapshot's event id, report, credibility_score and timestamps as they
\* were, and no repository operation changes a snapshot once it is created.
C22_SnapshotsWriteOnce ==
  [][/\ \A v \in DOMAIN histories :
          v \in DOMAIN histories' /\ histories'[v] = histories[v]
     /\ \A v \in DOMAIN histories, e \in EventIds, cs \in SnapshotScores :
          SaveInvestigationResult(Caller, v, e, cs) => last'.res = "raised"]_vars

\* A second save under a stored id was refused by the database (the only
\* commit that fails on this engine), and the first snapshot is still there
\* beside a snapshot of the other id.
C22_Witness ==
  /\ ~fkEnforced
  /\ last.op = "save_investigation_result" /\ last.res = "raised"
  /\ DOMAIN histories = InvestigationIds
  /\ histories["I1"] = [event_id |-> "E1", credibility_score |-> 40]

GraphReads ==
  {"calculate_event_credibility", "generate_event_graph", "generate_propagation_timeline",
   "find_refutation_chain", "find_claim_propagation_path"}

\* C23: calculate_event_credibility, generate_event_graph,
\* generate_propagation_timeline, find_refutation_chain and
\* find_claim_propagation_path leave every Source, Event, Claim and edge as it
\* was; batch_update_source_scores changes nothing but the credit_score of
\* Sources, which is what update_source_credit_score changes.
C23_GraphEngineReadsOnly ==
  [][/\ last'.op \in GraphReads => store' = store
     /\ last'.op = "batch_update_source_scores" =>
          /\ <<claims', events', histories', refutations'>> = <<claims, events, histories, refutations>>
          /\ DOMAIN sources' = DOMAIN sources
          /\ \A i \in DOMAIN sources :
               /\ [sources'[i] EXCEPT !.credit_score = sources[i].credit_score] = sources[i]
               /\ sources'[i].credit_score \in MinCreditScore..MaxCreditScore]_vars

\* A credibility was computed for an event whose stored credibility_score it
\* differs from, with claims and an edge in the store.
C23_Witness ==
  /\ last.op = "calculate_event_credibility" /\ last.res = "ok"
  /\ claims # <<>> /\ refutations # <<>>
  /\ last.credibility_score # 100 * events[last.event_id].credibility_score

NoRepeat(chain) == \A j, k \in DOMAIN chain : j # k => chain[j] # chain[k]

ChangesFor(rs, i) ==
  LET mine == SelectSeq(rs, LAMBDA r : r.source_id = i)
  IN [k \in DOMAIN mine |-> mine[k].score_change[1]]

\* C24: batch_update_source_scores applies each (source_id, score_change)
\* entry through update_source_credit_score in list order, goes on with the
\* remaining entries after an entry whose Source does not exist, and returns
\* the number of entries whose update succeeded: the entries before and
\* after a failed entry are all applied.
C24_BatchContinuesAndCounts ==
  [][\A rs \in BatchRuns :
       BatchUpdateSourceScores(Caller, rs) =>
         /\ last'.res = "ok"
         /\ last'.ret = Cardinality({k \in DOMAIN rs : SourceExists(rs[k].source_id)})
         /\ DOMAIN sources' = DOMAIN sources
         /\ \A i \in DOMAIN sources :
              sources'[i].credit_score = FoldClamped(sources[i].credit_score, ChangesFor(rs, i))]_vars

\* A batch of three entries, one of them for a Source that does not exist,
\* returned 2: the two other entries were applied to the only Source, in
\* their order (+60 up to the ceiling, then -60).
C24_Witness ==
  /\ last.op = "batch_update_source_scores" /\ last.ret = 2
  /\ Len(sources) = 1
  /\ sources[1].credit_score = 40

\* C25: get_trending_sources(limit) returns at most limit Sources ordered by
\* total_claims descending, and Sources with equal total_claims appear in the
\* order in which they were created, so that two calls on unchanged data
\* return the same list.
C25_TrendingOrder ==
  (last.op = "get_trending_sources" /\ last.res = "ok") =>
    /\ Len(last.rows) <= last.ret
    /\ \A j, k \in DOMAIN last.rows :
         j < k =>
           \/ last.rows[j].total_claims > last.rows[k].total_claims
           \/ /\ last.rows[j].total_claims = last.rows[k].total_claims
              /\ SourceIdByName(last.rows[j].name) < SourceIdByName(last.rows[k].name)

\* The nodes and the edges of a graph that satisfy a condition
NodesWith(g, P(_)) == {k \in DOMAIN g.nodes : P(g.nodes[k])}
EdgesWith(g, P(_)) == {k \in DOMAIN g.edges : P(g.edges[k])}

\* The Claims of an event, and those among them whose Source row exists
EventClaimSet(e) == {c \in DOMAIN claims : claims[c].event_id = e}
SourcedClaimSet(e) == {c \in EventClaimSet(e) : SourceExists(claims[c].source_id)}

GraphIsFlattening(g, e) ==
  /\ Cardinality(NodesWith(g, LAMBDA n : n.type = "event")) = 1
  /\ Cardinality(NodesWith(g, LAMBDA n : n.type = "event" /\ n.id = e)) = 1
  /\ Cardinality(NodesWith(g, LAMBDA n : n.type = "claim")) = Cardinality(EventClaimSet(e))
  /\ \A c \in EventClaimSet(e) :
       Cardinality(NodesWith(g, LAMBDA n : n.type = "claim" /\ n.id = ClaimNodeId(c))) = 1
  /\ Cardinality(NodesWith(g, LAMBDA n : n.type = "source"))
       = Cardinality({claims[c].source_id : c \in SourcedClaimSet(e)})
  /\ \A c \in SourcedClaimSet(e) :
       Cardinality(NodesWith(g, LAMBDA n : n.type = "source"
                                           /\ n.id = SourceNodeId(claims[c].source_id))) = 1
  /\ \A j, k \in DOMAIN g.nodes : j # k => g.nodes[j].id # g.nodes[k].id
  /\ Cardinality(EdgesWith(g, LAMBDA x : x.type = "has_claim")) = Cardinality(EventClaimSet(e))
  /\ \A c \in EventClaimSet(e) :
       Cardinality(EdgesWith(g, LAMBDA x : x = Edge(e, ClaimNodeId(c), "has_claim"))) = 1
  /\ Cardinality(EdgesWith(g, LAMBDA x : x.type = "made_claim")) = Cardinality(SourcedClaimSet(e))
  /\ \A c \in SourcedClaimSet(e) :
       Cardinality(EdgesWith(g, LAMBDA x : x = Edge(SourceNodeId(claims[c].source_id),
                                                    ClaimNodeId(c), "made_claim"))) = 1
  /\ Len(g.edges) = Cardinality(EventClaimSet(e)) + Cardinality(SourcedClaimSet(e))

Earlier(a, b) == a[1] < b[1] \/ (a[1] = b[1] /\ a[2] < b[2])

\* C27: generate_propagation_timeline returns one entry per Claim of the
\* event, sorted ascending by claim timestamp, and entries with equal
\* timestamps are ordered by claim id ascending.
C27_TimelineOrder ==
  (last.op = "generate_propagation_timeline" /\ last.res = "ok") =>
    /\ Len(last.timeline) = Cardinality(EventClaimSet(last.event_id))
    /\ \A c \in EventClaimSet(last.event_id) :
         \E k \in DOMAIN last.timeline : last.timeline[k].claim = c
    /\ \A j, k \in DOMAIN last.timeline :
         j < k =>
           \/ Earlier(claims[last.timeline[j].claim].timestamp, claims[last.timeline[k].claim].timestamp)
           \/ /\ claims[last.timeline[j].claim].timestamp = claims[last.timeline[k].claim].timestamp
              /\ last.timeline[j].claim < last.timeline[k].claim

\* C29: update_event_status on an existing event changes that Event's status
\* and, when and only when a score is supplied, its credibility_score; it
\* changes no other Event, no Claim and no Source, and it accepts any target
\* status from any current status.
C29_EventStatusUpdateOnly ==
  [][\A e \in DOMAIN events, st \in EventStatus, cs \in OptScores :
       UpdateEventStatus(Caller, e, st, cs) =>
         /\ last'.res = "ok"
         /\ DOMAIN events' = DOMAIN events
         /\ events'[e].status = st
         /\ events'[e].credibility_score = IF cs = <<>> THEN events[e].credibility_score ELSE cs[1]
         /\ \A o \in DOMAIN events \ {e} : events'[o] = events[o]
         /\ <<sources', claims', histories', refutations'>> = <<sources, claims, histories, refutations>>]_vars

\* An event with a claim was given the score 0 and is back in the status it
\* was created in, next to an event that is refuted.
C29_Witness ==
  /\ last.op = "update_event_status" /\ last.res = "ok"
  /\ DOMAIN events = EventIds
  /\ events["E1"] = [status |-> "developing", credibility_score |-> 0]
  /\ events["E2"].status = "refuted"
  /\ \E c \in DOMAIN claims : claims[c].event_id = "E1"

\* C30: a Source newly created by find_or_create_source has credit_score 50
\* and total_claims = verified_claims = refuted_claims = 0.
C30_NewSourceDefaults ==
  (last.op = "find_or_create_source" /\ last.note = "created") =>
    /\ sources[last.ret].credit_score = 50
    /\ sources[last.ret].total_claims = 0
    /\ sources[last.ret].verified_claims = 0
    /\ sources[last.ret].refuted_claims = 0

\* A second Source was created after the score of the first was changed.
C30_Witness ==
  /\ last.op = "find_or_create_source" /\ last.note = "created" /\ last.ret = 2
  /\ sources[1].credit_score # 50
  /\ sources[2].type = "blog"

\* The Sources of a table by name with their credit_score, the Claims by id
\* with their status, the Refutation edges
ScoresOf(srcs) == {<<srcs[i].name, srcs[i].credit_score>> : i \in DOMAIN srcs}
StatusesOf(cls) == {<<c, cls[c].source_id, cls[c].event_id, cls[c].status>> : c \in DOMAIN cls}
EdgesOf(refs) == {<<refs[r].refuting_claim_id, refs[r].refuted_claim_id, refs[r].confidence>> : r \in DOMAIN refs}

\* C31: exporting all entities to the bulk JSON format and importing that JSON
\* into an empty store reproduces the same set of Sources with identical
\* credit_scores, the same Claims with identical statuses, and the same set
\* of Refutation edges.
C31_RoundTrip ==
  last.op = "import_data" =>
    /\ ScoresOf(last.db.sources) = ScoresOf(sources)
    /\ StatusesOf(last.db.claims) = StatusesOf(claims)
    /\ EdgesOf(last.db.refutations) = EdgesOf(refutations)

\* A record of a document that nothing is wrong with: its enumeration values
\* are known, its source is named by a record the document imports before
\* it, its key is not the key of an earlier record
GoodSource(data, k) == data.sources[k].type \in SourceTypes
GoodEvent(data, k) ==
  /\ data.events[k].status \in EventStatus
  /\ ~\E j \in 1..(k - 1) : data.events[j].id = data.events[k].id /\ data.events[j].status \in EventStatus
GoodClaim(data, k) ==
  /\ data.claims[k].status \in ClaimStatus
  /\ \/ data.claims[k].source_id # 0
     \/ \E j \in DOMAIN data.sources : GoodSource(data, j) /\ data.sources[j].name = data.claims[k].source_name
GoodEntity(data, k) == data.entities[k].typed
GoodArtifact(data, k) == data.artifacts[k].typed
GoodCount(data) ==
  [sources |-> Cardinality({k \in DOMAIN data.sources : GoodSource(data, k)}),
   events |-> Cardinality({k \in DOMAIN data.events : GoodEvent(data, k)}),
   claims |-> Cardinality({k \in DOMAIN data.claims : GoodClaim(data, k)}),
   entities |-> Cardinality({k \in DOMAIN data.entities : GoodEntity(data, k)}),
   artifacts |-> Cardinality({k \in DOMAIN data.artifacts : GoodArtifact(data, k)}),
   refutations |-> Len(data.refutations)]
RecordCount(data) ==
  Len(data.sources) + Len(data.events) + Len(data.claims) + Len(data.entities)
    + Len(data.artifacts) + Len(data.refutations)

\* C32: bulk import is record-level isolated: a record that fails increments
\* the error count by one and does not prevent any later valid record of the
\* same batch from being imported.
C32_RecordIsolation ==
  last.op = "import_data" =>
    LET good == GoodCount(last.data)
        stats == last.db.stats
    IN /\ \A kind \in DOMAIN good : stats[kind] = good[kind]
       /\ stats.errors = RecordCount(last.data)
                            - (good.sources + good.events + good.claims + good.entities
                               + good.artifacts + good.refutations)

\* C33: update_source_credit_score on a Source changes only that Source's
\* credit_score (and updated_at): the Source's claim counters and every field
\* of every other Source are unchanged, also when calls for different Sources
\* interleave.
C33_ScoreUpdateFrame ==
  [][\A s \in Sessions :
       (sess[s].pc = "ucs" /\ sess'[s].pc = "idle") =>
         /\ DOMAIN sources' = DOMAIN sources
         /\ \A i \in DOMAIN sources :
              IF i = sess[s].id
              THEN sources'[i] = [sources[i] EXCEPT !.credit_score = sources'[i].credit_score]
              ELSE sources'[i] = sources[i]
         /\ <<claims', events', histories', refutations'>> = <<claims, events, histories, refutations>>]_vars

\* The call for Source 1 has returned after a claim of Source 1 was counted,
\* while another caller is inside its call for Source 2.
C33_Witness ==
  /\ last.op = "update_source_credit_score" /\ last.res = "ok"
  /\ Len(sources) = 2
  /\ sources[1].credit_score = 0 /\ sources[1].total_claims = 1
  /\ sources[2].credit_score = 50
  /\ \E s \in Sessions : sess[s].pc = "ucs" /\ sess[s].id = 2

\* C34: total_claims, verified_claims and refuted_claims of every Source never
\* decrease along any sequence of repository operations; in particular a
\* claim leaving VERIFIED or REFUTED does not decrement the counter it had
\* incremented.
C34_CountersNeverDecrease ==
  [][\A i \in DOMAIN sources :
       /\ i \in DOMAIN sources'
       /\ sources'[i].total_claims >= sources[i].total_claims
       /\ sources'[i].verified_claims >= sources[i].verified_claims
       /\ sources'[i].refuted_claims >= sources[i].refuted_claims]_vars

\* The one claim of a Source was verified, then refuted, then set back to pending.
C34_Witness ==
  /\ Len(claims) = 1 /\ SourceExists(claims[1].source_id)
  /\ claims[1].status = "pending"
  /\ last.op = "update_claim_status" /\ last.res = "ok"
  /\ sources[claims[1].source_id].total_claims = 1
  /\ sources[claims[1].source_id].verified_claims = 1
  /\ sources[claims[1].source_id].refuted_claims = 1

\* C35: in every state reachable by create_claim and update_claim_status
\* calls, each Source satisfies verified_claims <= total_claims and
\* verified_claims + refuted_claims <= total_claims, so the accuracy_rate
\* reported by get_source_statistics never exceeds 100.
C35_CountersWithinTotal ==
  \A i \in DOMAIN sources :
    /\ sources[i].verified_claims <= sources[i].total_claims
    /\ sources[i].verified_claims + sources[i].refuted_claims <= sources[i].total_claims
    /\ AccuracyRate(sources[i]).num <= 100 * AccuracyRate(sources[i]).den

\* The claims of Source i whose current status is st
ClaimsIn(i, st) == {c \in DOMAIN claims : claims[c].source_id = i /\ claims[c].status = st}

\* C36: in every reachable state, for each Source the number of its Claims
\* whose current status is REFUTED is at most refuted_claims and the number
\* whose current status is VERIFIED is at most verified_claims, including
\* Claims that create_claim stored with an initial status other than PENDING.
C36_CountersCoverCurrentStatus ==
  \A i \in DOMAIN sources :
    /\ Cardinality(ClaimsIn(i, "refuted")) <= sources[i].refuted_claims
    /\ Cardinality(ClaimsIn(i, "verified")) <= sources[i].verified_claims

\* C37: a Source's credit_score changes only through
\* update_source_credit_score: create_claim and update_claim_status (for any
\* status transition) leave the credit_score of every Source unchanged.
C37_ScoreChangesOnlyByScoreUpdate ==
  [][/\ (\E i \in DOMAIN sources : sources'[i].credit_score # sources[i].credit_score)
         => last'.op = "update_source_credit_score"
     /\ last'.op \in {"create_claim", "update_claim_status"}
         => \A i \in DOMAIN sources : sources'[i].credit_score = sources[i].credit_score]_vars

\* A claim of Source 1 has just entered REFUTED and the score of Source 1 is
\* the default, while the score of Source 2 was lowered by a score update.
C37_Witness ==
  /\ last.op = "update_claim_status" /\ last.note = "entry"
  /\ Len(sources) = 2
  /\ \E c \in DOMAIN claims : claims[c].source_id = 1 /\ claims[c].status = "refuted"
  /\ sources[1].refuted_claims = 1 /\ sources[1].credit_score = DefaultCreditScore
  /\ sources[2].credit_score = 0

\* C38: when two callers concurrently call find_or_create_source with the
\* same previously unknown name, afterwards exactly one Source with that name
\* exists and both calls return that Source without raising an error.
C38_ConcurrentFindOrCreate ==
  /\ \A i, j \in DOMAIN sources : sources[i].name = sources[j].name => i = j
  /\ last.op = "find_or_create_source" =>
       /\ last.res = "ok"
       /\ last.ret \in DOMAIN sources

\* A result that counts as a success: COMPLETED and no errors
Succeeded(r) == r.status = "completed" /\ r.errors = 0
Critical == {"SourceHunterAgent", "SynthesizerAgent"}

\* C39: start_investigation runs the agents in the fixed order Monitor,
\* SourceHunter, Verifier, NarrativeAnalyst, Synthesizer and stops after the
\* first failing critical agent (SourceHunter or Synthesizer) while
\* continuing past a failing non-critical agent; it returns status
\* "completed" and attempts the EKG update if and only if the last agent that
\* ran succeeded, and returns "failed" without an EKG update otherwise.
C39_PipelineOrderAndOutcome ==
  LET n == Len(inv.results)
      order == <<"MonitorAgent", "SourceHunterAgent", "VerifierAgent",
                 "NarrativeAnalystAgent", "SynthesizerAgent">>
  IN /\ n <= 5
     /\ \A k \in 1..n : inv.results[k].agent_name = order[k]
     /\ \A k \in 1..(n - 1) : ~(order[k] \in Critical /\ ~Succeeded(inv.results[k]))
     /\ inv.pc \in {"report", "returned"} =>
          /\ n >= 1
          /\ n = 5 \/ (order[n] \in Critical /\ ~Succeeded(inv.results[n]))
     /\ inv.pc = "returned" =>
          /\ inv.status \in {"completed", "failed"}
          /\ inv.status = "completed" <=> Succeeded(inv.results[n])
          /\ inv.ekg_update <=> Succeeded(inv.results[n])
     /\ inv.pc # "returned" => ~inv.ekg_update /\ inv.status = "-"

\* All five agents ran although the Monitor failed and the Verifier completed
\* with errors, and the investigation completed with the EKG update.
C39_Witness ==
  /\ inv.pc = "returned" /\ inv.status = "completed" /\ inv.ekg_update
  /\ Len(inv.results) = 5
  /\ inv.results[1].status = "failed"
  /\ inv.results[3].status = "completed" /\ inv.results[3].errors > 0

\* C40: BaseAgent.run never propagates an exception and always returns a
\* result: a disabled agent returns COMPLETED (skipped) without calling
\* execute, failed input validation returns FAILED without calling execute,
\* and an exception raised in pre_execute, execute or post_execute yields a
\* FAILED result with a non-empty error list.
C40_RunAlwaysReturns ==
  /\ inv.pc # "raised"
  /\ \A k \in DOMAIN inv.results :
       LET r == inv.results[k]
       IN /\ ~r.raised
          /\ r.status \in {"completed", "failed"}
          /\ ~inv.enabled[k] => r.status = "completed" /\ r.skipped /\ ~r.executed
          /\ (inv.enabled[k] /\ ~inv.valid) => r.status = "failed" /\ ~r.executed
          /\ (inv.enabled[k] /\ inv.valid
                /\ inv.inputs[k] \in {"pre_raises", "execute_raises", "post_raises"})
               => r.status = "failed" /\ r.errors > 0

\* One investigation in which an agent was disabled, a pre_execute raised, an
\* execute raised and a post_execute raised.
C40_Witness ==
  /\ inv.valid
  /\ \E k \in DOMAIN inv.results : ~inv.enabled[k] /\ inv.results[k].skipped
  /\ \E k \in DOMAIN inv.results : inv.inputs[k] = "pre_raises"
  /\ \E k \in DOMAIN inv.results : inv.inputs[k] = "execute_raises"
  /\ \E k \in DOMAIN inv.results : inv.inputs[k] = "post_raises"

====
